---- MODULE Spec2Model ----
(***************************************************************************)
(* RaffleManager data generator: the table-literal serializer              *)
(* (format_lua_value), the account generators of RaffleDataGenerator, and  *)
(* the two validators (validate.py, check_amounts.py) that re-scan the     *)
(* generated text with regular expressions.                                *)
(*                                                                         *)
(* Text is a sequence of one-character strings, so that rendering and      *)
(* pattern extraction are computed character by character.                 *)
(***************************************************************************)
EXTENDS Integers, Sequences, FiniteSets, TLC

\* ---------------------------------------------------------------- bounds
\* Stand-in for the 5000000 of random.randint(0, 5000000).
MaxSales30 == 1
\* Stand-in for the 100000 of random.randint(0, 100000).
MaxPurchases30 == 1
\* Stand-in for the 1000 of random.randint(1, 1000).
MaxTickets == 2
\* Largest ticket cost handed to the generator.
MaxTicketCost == 2
\* Largest number of records (accounts and their roster and mail entries)
\* one generate_file call builds.
MaxRecords == 3
\* Largest number of roster entries of an externally supplied file.
MaxRosterFragments == 2
\* Largest number of ticket_cost / amount lines of an externally supplied
\* file.
MaxAmountFragments == 3
\* Largest indent passed to format_lua_value from outside.
MaxIndent == 1
\* Largest number of items of a list or dict passed to format_lua_value
\* from outside.
MaxLen == 2

\* ------------------------------------------------------------------ state
VARIABLES
    fs,          \* path -> the file there
    gen_pc,      \* where the generate_file call is: idle, generating,
                 \* written, raised, looping
    args,        \* the arguments of the generate_file call
    made,        \* the number of loop iterations of generate_file done
    accounts,    \* the accounts dict of generate_file, in insertion order
    generator,   \* the RaffleDataGenerator instance
    mail_log,    \* the amount draws of generate_mail_data, in order
    cli,         \* the last validator command run and what it did
    fmt,         \* the format_lua_value calls made from outside
    inst,        \* the methods called on the generator instance directly
    config,      \* config.json, the persisted defaults
    run,         \* the last invocation of the generator (command line or
                 \* presentation layer) and what it did
    draw,        \* a generate_mail_id call followed draw by draw
    conf,        \* the text of config.json and the last load_config call
    gui          \* the window: its button, its log, its worker threads

\* ------------------------------------------------------------- characters
Digits == <<"0", "1", "2", "3", "4", "5", "6", "7", "8", "9">>

IsDigit(c) == \E d \in 1..10 : Digits[d] = c
\* the characters Python's \s matches (in str patterns)
IsSpace(c) == c \in {" ", "\t", "\n", "\r", "\f"}
DigitValue(c) == (CHOOSE d \in 1..10 : Digits[d] = c) - 1

Min(S) == CHOOSE x \in S : \A y \in S : x <= y

\* str(n) for an integer n
RECURSIVE str_int(_)
str_int(n) ==
    IF n < 0 THEN <<"-">> \o str_int(-n)
    ELSE IF n < 10 THEN <<Digits[n + 1]>>
    ELSE str_int(n \div 10) \o <<Digits[(n % 10) + 1]>>

\* int(s) for a string of decimal digits
RECURSIVE int_of(_)
int_of(s) ==
    IF Len(s) = 1 THEN DigitValue(s[1])
    ELSE 10 * int_of(SubSeq(s, 1, Len(s) - 1)) + DigitValue(s[Len(s)])

\* word.title() for a lower-case word
title(w) ==
    LET
        LowerCase ==
            <<"a", "b", "c", "d", "e", "f", "g", "h", "i", "j", "k", "l", "m",
              "n", "o", "p", "q", "r", "s", "t", "u", "v", "w", "x", "y", "z">>
        UpperCase ==
            <<"A", "B", "C", "D", "E", "F", "G", "H", "I", "J", "K", "L", "M",
              "N", "O", "P", "Q", "R", "S", "T", "U", "V", "W", "X", "Y", "Z">>
    IN IF w = <<>> THEN w
       ELSE <<IF \E i \in 1..26 : LowerCase[i] = w[1]
               THEN UpperCase[CHOOSE i \in 1..26 : LowerCase[i] = w[1]]
               ELSE w[1]>> \o Tail(w)

\* "\n".join(lines)
RECURSIVE Join(_)
Join(lines) ==
    IF Len(lines) = 0 THEN <<>>
    ELSE IF Len(lines) = 1 THEN lines[1]
    ELSE lines[1] \o <<"\n">> \o Join(Tail(lines))

\* the concatenation of a sequence of texts
RECURSIVE Concat(_)
Concat(parts) ==
    IF parts = <<>> THEN <<>> ELSE parts[1] \o Concat(Tail(parts))

\* "    " * indent
RECURSIVE Spaces(_)
Spaces(indent) ==
    IF indent <= 0 THEN <<>> ELSE <<" ", " ", " ", " ">> \o Spaces(indent - 1)

\* ------------------------------------------------------------ key names
\* the keys of the generated tables, as the texts between the quotes
Key ==
    [version |-> <<"v", "e", "r", "s", "i", "o", "n">>,
     ticket_cost |-> <<"t", "i", "c", "k", "e", "t", "_", "c", "o", "s",
         "t">>,
     roster_data |-> <<"r", "o", "s", "t", "e", "r", "_", "d", "a", "t",
         "a">>,
     roster_timestamp |-> <<"r", "o", "s", "t", "e", "r", "_", "t", "i", "m",
         "e", "s", "t", "a", "m", "p">>,
     mail_data |-> <<"m", "a", "i", "l", "_", "d", "a", "t", "a">>,
     timestamp |-> <<"t", "i", "m", "e", "s", "t", "a", "m", "p">>,
     body |-> <<"b", "o", "d", "y">>,
     subject |-> <<"s", "u", "b", "j", "e", "c", "t">>,
     account |-> <<"a", "c", "c", "o", "u", "n", "t">>,
     joined |-> <<"j", "o", "i", "n", "e", "d">>,
     sales10 |-> <<"s", "a", "l", "e", "s", "1", "0">>,
     purchases30 |-> <<"p", "u", "r", "c", "h", "a", "s", "e", "s", "3",
         "0">>,
     sales30 |-> <<"s", "a", "l", "e", "s", "3", "0">>,
     rank |-> <<"r", "a", "n", "k">>,
     purchases10 |-> <<"p", "u", "r", "c", "h", "a", "s", "e", "s", "1",
         "0">>,
     id |-> <<"i", "d">>,
     amount |-> <<"a", "m", "o", "u", "n", "t">>,
     user |-> <<"u", "s", "e", "r">>,
     AccountWide |-> <<"$", "A", "c", "c", "o", "u", "n", "t", "W", "i", "d",
         "e">>,
     Default |-> <<"D", "e", "f", "a", "u", "l", "t">>]
FileHeader == <<"R", "a", "f", "f", "l", "e", "M", "a", "n", "a", "g", "e", "r", "_", "S", "a", "v", "e", "d", "V", "a", "r", "i", "a", "b", "l", "e", "s", " ", "=", "\n">>

\* ---------------------------------------------------------------- values
\* A Python value is a tagged record.  A dict is the sequence of its
\* <<key, value>> pairs in insertion order; a key is a str or an int value.
VInt(n) == [t |-> "int", v |-> n]
VStr(s) == [t |-> "str", v |-> s]
VBool(b) == [t |-> "bool", v |-> b]
VList(items) == [t |-> "list", v |-> items]
VDict(pairs) == [t |-> "dict", v |-> pairs]

\* d[key] = val on a dict: an existing key keeps its position
DictSet(pairs, key, val) ==
    IF \E i \in 1..Len(pairs) : pairs[i][1] = key
    THEN [i \in 1..Len(pairs) |->
            IF pairs[i][1] = key THEN <<key, val>> ELSE pairs[i]]
    ELSE Append(pairs, <<key, val>>)

\* key in d
DictHas(pairs, key) == \E i \in 1..Len(pairs) : pairs[i][1] = key

\* d[key]
DictGet(pairs, key) ==
    pairs[CHOOSE i \in 1..Len(pairs) : pairs[i][1] = key][2]

\* ------------------------------------------------------- format_lua_value
\* str(value) of a scalar
py_str(value) ==
    CASE value.t = "int" -> str_int(value.v)
      [] value.t = "bool" ->
            IF value.v THEN <<"T", "r", "u", "e">>
            ELSE <<"F", "a", "l", "s", "e">>
      [] OTHER -> value.v

\* mutant: the string left as it is
escape_nothing(s) == s

\* value.replace('"', '\\"')
RECURSIVE escape_quotes(_)
escape_quotes(s) ==
    IF s = <<>> THEN <<>>
    ELSE (IF s[1] = "\"" THEN <<"\\", "\"">> ELSE <<s[1]>>)
         \o escape_quotes(Tail(s))

\* key_str of a mapping key: f'["{key}"]' or f"[{key}]"
key_str(key) ==
    IF key.t = "str" THEN <<"[", "\"">> \o key.v \o <<"\"", "]">>
    ELSE <<"[">> \o py_str(key) \o <<"]">>

\* mutant: enumerate(value), counting from 0
list_index_from_zero(pos) == pos - 1

\* the index enumerate(value, 1) gives the item at (1-based) position pos
list_index(pos) == pos

\* f"{spaces}    [{i}] = {item_str},"
list_line(spaces, i, item_str) ==
    spaces \o Spaces(1) \o <<"[">> \o str_int(i) \o <<"]", " ", "=", " ">>
    \o item_str \o <<",">>

\* f"{spaces}    {key_str} = {val_str},"
dict_line(spaces, ks, val_str) ==
    spaces \o Spaces(1) \o ks \o <<" ", "=", " ">> \o val_str \o <<",">>

\* mutant: an empty container rendered as a block like any other
never_empty(items) == FALSE

\* if not value: return "{}"
is_empty(items) == items = <<>>

RECURSIVE format_lua_value(_, _)
format_lua_value(value, indent) ==
    LET spaces == Spaces(indent)
    IN CASE value.t = "dict" ->
              IF is_empty(value.v) THEN <<"{", "}">>
              ELSE Join(<< <<"{">> >>
                        \o [i \in 1..Len(value.v) |->
                              dict_line(spaces, key_str(value.v[i][1]),
                                  format_lua_value(value.v[i][2], indent + 1))]
                        \o << spaces \o <<"}">> >>)
         [] value.t = "list" ->
              IF is_empty(value.v) THEN <<"{", "}">>
              ELSE Join(<< <<"{">> >>
                        \o [i \in 1..Len(value.v) |->
                              list_line(spaces, list_index(i),
                                  format_lua_value(value.v[i], indent + 1))]
                        \o << spaces \o <<"}">> >>)
         [] value.t = "str" ->
              <<"\"">> \o escape_quotes(value.v) \o <<"\"">>
         \* isinstance(value, (int, float)) holds of a bool as well, so the
         \* bool branch after it is never taken
         [] value.t \in {"int", "bool"} -> py_str(value)
         [] OTHER -> py_str(value)

\* ------------------------------------------------------ pattern matching
\* The regular expressions of the validators, matched as Python's re does
\* (leftmost match, greedy \s* and \d+, lazy .*? with re.DOTALL).

\* \["key"\]
KeyLit(key) == <<"[", "\"">> \o key \o <<"\"", "]">>

\* the literal lit occurs in t at position p
LitAt(t, p, lit) ==
    /\ p + Len(lit) - 1 <= Len(t)
    /\ \A i \in 1..Len(lit) : t[p + i - 1] = lit[i]

\* \s* from position p: the position after the longest run of white space
RECURSIVE SkipSpace(_, _)
SkipSpace(t, p) ==
    IF p <= Len(t) /\ IsSpace(t[p]) THEN SkipSpace(t, p + 1) ELSE p

\* \d* from position p: the position after the longest run of digits
RECURSIVE SkipDigits(_, _)
SkipDigits(t, p) ==
    IF p <= Len(t) /\ IsDigit(t[p]) THEN SkipDigits(t, p + 1) ELSE p

NoMatch == [ok |-> FALSE, end |-> 0, groups |-> <<>>]

\* the positions of t that hold the first character of every key literal
Brackets(t) == {p \in 1..Len(t) : t[p] = "["}

\* \["k1"\]\s*=\s*(\d+),.*?\["k2"\]\s*=\s*(\d+),.*? ... \["kn"\]\s*=\s*(\d+)
\* matched at position p of t; end is the position after the match and
\* groups the captured digit strings.  brackets is Brackets(t): the lazy
\* .*? stops at the first position from which the rest of the pattern
\* matches, and such a position holds "[".
RECURSIVE MatchFields(_, _, _, _)
MatchFields(t, brackets, p, keys) ==
    LET lit == KeyLit(keys[1])
        eq == SkipSpace(t, p + Len(lit))
        num == SkipSpace(t, eq + 1)
        stop == SkipDigits(t, num)
    IN IF ~LitAt(t, p, lit) THEN NoMatch
       ELSE IF eq > Len(t) \/ t[eq] # "=" \/ stop = num THEN NoMatch
       ELSE IF Len(keys) = 1
            THEN [ok |-> TRUE, end |-> stop,
                  groups |-> <<SubSeq(t, num, stop - 1)>>]
       ELSE IF stop > Len(t) \/ t[stop] # "," THEN NoMatch
       ELSE LET later == {q \in brackets :
                            /\ q > stop
                            /\ MatchFields(t, brackets, q, Tail(keys)).ok}
            IN IF later = {} THEN NoMatch
               ELSE LET rest == MatchFields(t, brackets, Min(later), Tail(keys))
                    IN [ok |-> TRUE, end |-> rest.end,
                        groups |-> <<SubSeq(t, num, stop - 1)>> \o rest.groups]

\* the positions of t at which the pattern matches
MatchStarts(t, brackets, keys) ==
    {p \in brackets : MatchFields(t, brackets, p, keys).ok}

RECURSIVE FindAllFrom(_, _, _, _, _)
FindAllFrom(t, brackets, starts, p, keys) ==
    LET S == {q \in starts : q >= p}
    IN IF S = {} THEN <<>>
       ELSE LET m == MatchFields(t, brackets, Min(S), keys)
            IN <<m.groups>> \o FindAllFrom(t, brackets, starts, m.end, keys)

\* re.findall(pattern, t): the groups of the non-overlapping matches,
\* left to right
FindAll(t, keys) ==
    LET brackets == Brackets(t)
    IN FindAllFrom(t, brackets, MatchStarts(t, brackets, keys), 1, keys)

Max(S) == CHOOSE x \in S : \A y \in S : x >= y

\* mutant: the last match instead of the first
SearchLast(t, keys) ==
    LET brackets == Brackets(t)
        S == MatchStarts(t, brackets, keys)
    IN IF S = {} THEN <<>> ELSE MatchFields(t, brackets, Max(S), keys).groups

\* re.search(pattern, t): the groups of the first match, <<>> for None
Search(t, keys) ==
    LET brackets == Brackets(t)
        S == MatchStarts(t, brackets, keys)
    IN IF S = {} THEN <<>> ELSE MatchFields(t, brackets, Min(S), keys).groups

\* mutant: the four counters in another order than the file has them
roster_pattern_by_period ==
    <<Key.sales10, Key.sales30, Key.purchases10, Key.purchases30>>

\* ------------------------------------------------------------ validate.py
roster_pattern == <<Key.sales10, Key.purchases30, Key.sales30, Key.purchases10>>

\* mutant: the groups taken as sales10, sales30, purchases10, purchases30
unpack_match_paired(match) ==
    [sales10 |-> int_of(match[1]), sales30 |-> int_of(match[2]),
     purchases10 |-> int_of(match[3]), purchases30 |-> int_of(match[4])]

\* sales10, purchases30, sales30, purchases10 = map(int, match)
unpack_match(match) ==
    [sales10 |-> int_of(match[1]), purchases30 |-> int_of(match[2]),
     sales30 |-> int_of(match[3]), purchases10 |-> int_of(match[4])]

\* mutant: equal totals flagged as well
sales_inconsistent_or_equal(e) == e.sales10 >= e.sales30

\* if sales10 > sales30
sales_inconsistent(e) == e.sales10 > e.sales30

\* mutant: the 10-day purchases compared with the 30-day sales
purchases_against_sales(e) == e.purchases10 > e.sales30

\* if purchases10 > purchases30
purchases_inconsistent(e) == e.purchases10 > e.purchases30

\* the issues appended for the i-th match
entry_issues(i, e) ==
    (IF sales_inconsistent(e)
     THEN <<[entry |-> i, kind |-> "sales", ten |-> e.sales10,
             thirty |-> e.sales30]>>
     ELSE <<>>)
    \o (IF purchases_inconsistent(e)
        THEN <<[entry |-> i, kind |-> "purchases", ten |-> e.purchases10,
                thirty |-> e.purchases30]>>
        ELSE <<>>)

\* a printed line: what it says and the numbers it carries
Line(msg, numbers) == [msg |-> msg, args |-> numbers]

\* return False when issues were found, True otherwise
validate_result(issues) == issues = <<>>

\* the prints after the loop and the value returned, for the matches,
\* their unpacked values and the issues appended
roster_report(matches, entries, issues) ==
    LET total_entries == Len(matches)
        shown == IF Len(issues) > 10 THEN 10 ELSE Len(issues)
    IN [matches |-> matches,
        entries |-> entries,
        issues |-> issues,
        out |-> <<Line("Validating", <<>>), Line("Validated", <<total_entries>>)>>
                \o (IF issues # <<>>
                    THEN <<Line("Found", <<Len(issues)>>)>>
                         \o [k \in 1..shown |->
                               Line("Issue", <<issues[k].entry, issues[k].ten,
                                               issues[k].thirty>>)]
                         \o (IF Len(issues) > 10
                             THEN <<Line("More", <<Len(issues) - 10>>)>>
                             ELSE <<>>)
                    ELSE <<Line("AllConsistent", <<>>)>>),
        result |-> validate_result(issues)]

\* for i, match in enumerate(matches): the issues of all the entries
check_entries(matches, entries) ==
    roster_report(matches, entries,
                  Concat([i \in 1..Len(entries) |-> entry_issues(i, entries[i])]))

\* the loop of validate_roster_data over the matches found
check_matches(matches) ==
    check_entries(matches, [i \in 1..Len(matches) |-> unpack_match(matches[i])])

\* validate_roster_data on the content read from the file
validate_roster_data(content) == check_matches(FindAll(content, roster_pattern))

\* --------------------------------------------------------- check_amounts.py
\* if not ticket_cost_match: print(...); return
stop_without_ticket_cost(ticket_cost_match) == ticket_cost_match = <<>>

\* mutant: no early return when no amount is found
never_stop_without_amounts(amounts) == FALSE

\* if not amounts: print(...); return
stop_without_amounts(amounts) == amounts = <<>>

\* amount % ticket_cost == 0
is_valid_amount(amount, ticket_cost) == amount % ticket_cost = 0

\* [x for x in xs if keep(x)]
RECURSIVE SelectAmounts(_, _, _)
SelectAmounts(amounts, ticket_cost, valid) ==
    IF amounts = <<>> THEN <<>>
    ELSE (IF is_valid_amount(amounts[1], ticket_cost) = valid
          THEN <<amounts[1]>> ELSE <<>>)
         \o SelectAmounts(Tail(amounts), ticket_cost, valid)

\* what check_amounts leaves when it stops before classifying
NoAmountsReport ==
    [ticket_cost |-> -1, amounts |-> <<>>, valid |-> <<>>, invalid |-> <<>>,
     raised |-> "", out |-> <<>>]

\* the counts, percentages and samples printed for the classified amounts
amounts_report(ticket_cost, amounts, valid_amounts, invalid_amounts) ==
    LET total == Len(amounts)
        valid_count == Len(valid_amounts)
        invalid_count == Len(invalid_amounts)
        samples == IF invalid_count > 5 THEN 5 ELSE invalid_count
    IN IF total = 0
       \* valid_count/total raises ZeroDivisionError
       THEN [NoAmountsReport EXCEPT
                !.ticket_cost = ticket_cost, !.amounts = amounts,
                !.out = <<Line("TicketCost", <<ticket_cost>>),
                          Line("Total", <<total>>)>>,
                !.raised = "ZeroDivisionError"]
       ELSE [ticket_cost |-> ticket_cost, amounts |-> amounts,
             valid |-> valid_amounts, invalid |-> invalid_amounts,
             raised |-> "",
             out |-> <<Line("TicketCost", <<ticket_cost>>),
                       Line("Total", <<total>>),
                       Line("Valid", <<valid_count, total>>),
                       Line("Invalid", <<invalid_count, total>>)>>
                     \o (IF invalid_count > 0
                         THEN <<Line("SampleHeader", <<>>)>>
                              \o [k \in 1..samples |->
                                    Line("Sample", <<invalid_amounts[k],
                                         invalid_amounts[k] % ticket_cost>>)]
                         ELSE <<>>)]

\* check_amounts from the amounts on: the early return, the two
\* comprehensions and the report
classify_amounts(ticket_cost, amounts) ==
    IF stop_without_amounts(amounts)
    THEN [NoAmountsReport EXCEPT
             !.ticket_cost = ticket_cost,
             !.out = <<Line("TicketCost", <<ticket_cost>>),
                       Line("NoAmounts", <<>>)>>]
    ELSE IF ticket_cost = 0 /\ amounts # <<>>
    \* amount % 0 raises ZeroDivisionError in the first comprehension
    THEN [NoAmountsReport EXCEPT
             !.ticket_cost = ticket_cost, !.amounts = amounts,
             !.out = <<Line("TicketCost", <<ticket_cost>>)>>,
             !.raised = "ZeroDivisionError"]
    ELSE amounts_report(ticket_cost, amounts,
                        SelectAmounts(amounts, ticket_cost, TRUE),
                        SelectAmounts(amounts, ticket_cost, FALSE))

\* [int(match) for match in re.findall(amount_pattern, content)]
int_amounts(found) == [i \in 1..Len(found) |-> int_of(found[i][1])]

\* check_amounts from the ticket cost match on
with_ticket_cost_match(content, ticket_cost_match) ==
    IF stop_without_ticket_cost(ticket_cost_match)
    THEN [NoAmountsReport EXCEPT !.out = <<Line("NoTicketCost", <<>>)>>]
    ELSE IF ticket_cost_match = <<>>
    \* None.group(1) raises AttributeError
    THEN [NoAmountsReport EXCEPT !.raised = "AttributeError"]
    ELSE classify_amounts(int_of(ticket_cost_match[1]),
                          int_amounts(FindAll(content, <<Key.amount>>)))

\* check_amounts on the content read from the file.  raised names the
\* exception that ends the call early ("" when it returns).
check_amounts(content) ==
    with_ticket_cost_match(content, Search(content, <<Key.ticket_cost>>))

\* ------------------------------------------------------------- generator
\* Samples of the word lists and pools the generator draws from:
\* ADJECTIVES, NOUNS, RANKS, MAIL_SUBJECTS, MAIL_BODY_TEMPLATES,
\* MAIL_SUBJECTS_TEMPLATES.
Samples ==
    [adjective |-> {<<"a", "c", "t", "i", "v", "e">>},
     noun |-> {<<"a", "r", "c", "h", "e", "r">>},
     rank |-> {<<"G", "u", "i", "l", "d", " ", "M", "a", "s", "t", "e", "r">>},
     mail_subject |-> {<<"t", "i", "x">>},
     mail_body_template |-> {<<"R", "a", "f", "f", "l", "e", " ", "c", "o", "n", "f", "i", "r", "m", "a", "t", "i", "o", "n", " ", "f", "o", "r", " ", "<", "<", "1", ">", ">", "\r", "\n", "\r", "\n", "T", "i", "c", "k", "e", "t", "s", ":", " ", "<", "<", "2", ">", ">", "\r", "\n", "\r", "\n", "T", "h", "a", "n", "k", " ", "y", "o", "u", " ", "f", "o", "r", " ", "p", "a", "r", "t", "i", "c", "i", "p", "a", "t", "i", "n", "g", "!">>},
     mail_subjects_template |-> {<<"R", "a", "f", "f", "l", "e", " ", "T", "i", "c", "k", "e", "t", " ", "C", "o", "n", "f", "i", "r", "m", "a", "t", "i", "o", "n">>}]
\* random.randint(1, 999) of generate_username
NumberSamples == {7}
\* The draws of random.randint(2700000000, 2999999999) the model makes, the
\* two ends of the range, each as <<n \div 100000, n % 100000>>: the draw
\* is wider than the integers of the model.
MailIdDraws == {<<27000, 0>>, <<29999, 99999>>}

\* the last width digits of str(n), with leading zeros
RECURSIVE low_digits(_, _)
low_digits(n, width) ==
    IF width = 0 THEN <<>>
    ELSE low_digits(n \div 10, width - 1) \o <<Digits[(n % 10) + 1]>>

\* str(n) for the draw n = d[1] * 100000 + d[2]
mail_id_str(d) == str_int(d[1]) \o low_digits(d[2], 5)

MailIdSamples == {mail_id_str(d) : d \in MailIdDraws}
\* int(time.time()) during the run
Now == 1700000001
\* the lower end of the timestamp draws
TimestampFloor == 1600000000

\* random.randint(a, b) over a small range: every value of it (none when
\* the range is empty, where randint raises ValueError)
randint(a, b) == a..b

\* random.randint(a, b) over a wide range: sampled at its upper end
randint_wide(a, b) == IF a > b THEN {} ELSE {b}

\* The state of one RaffleDataGenerator instance.
NewGenerator == [used_usernames |-> {}, used_mail_ids |-> {}]

\* the names the retry loop of generate_username can draw
UsernameCandidates ==
    {<<"@">> \o title(a) \o title(n) : a \in Samples.adjective, n \in Samples.noun}
    \cup {<<"@">> \o title(a) \o title(n) \o str_int(k) :
             a \in Samples.adjective, n \in Samples.noun, k \in NumberSamples}

\* str(int(time.time()))[-6:]
time_suffix(now) ==
    LET s == str_int(now)
    IN IF Len(s) <= 6 THEN s ELSE SubSeq(s, Len(s) - 5, Len(s))

\* the names of the fallback of generate_username
FallbackUsernames ==
    {<<"@">> \o title(a) \o time_suffix(Now) : a \in Samples.adjective}

\* the attempts of the retry loop of generate_username
MaxAttempts == 100

\* mutant: one more pass through the loop
keep_trying_once_more(attempts) == attempts <= MaxAttempts

\* while attempts < 100
keep_trying(attempts) == attempts < MaxAttempts

\* mutant: every candidate taken as new
any_username(username, g) == TRUE

\* if username not in self.used_usernames
new_username(username, g) == username \notin g.used_usernames

\* a draw of the loop can collide
can_collide(g) == \E c \in UsernameCandidates : ~new_username(c, g)

\* the values of attempts at which the body of the loop can run: each
\* takes as many collisions before it
loop_passes(g) ==
    {a \in 0..(MaxAttempts + 1) :
        /\ \A b \in 0..a : keep_trying(b)
        /\ (a > 0 => can_collide(g))}

\* the values of attempts at which the loop can end without a return
loop_exits(g) ==
    {a \in 0..(MaxAttempts + 1) :
        /\ ~keep_trying(a)
        /\ \A b \in 0..(a - 1) : keep_trying(b)
        /\ (a > 0 => can_collide(g))}

\* generate_username: in each pass of the loop the candidate drawn is
\* returned when it is not in the used set and counted as a collision when
\* it is; after the loop the fallback name is added and returned unchecked.
\* tested is the number of candidates tested against the used set.
username_attempts(g) ==
    {[result |-> c, path |-> "retry", tested |-> a + 1,
      g |-> [g EXCEPT !.used_usernames = @ \cup {c}]] :
        c \in {x \in UsernameCandidates : new_username(x, g)},
        a \in loop_passes(g)}
    \cup {[result |-> f, path |-> "fallback", tested |-> a,
           g |-> [g EXCEPT !.used_usernames = @ \cup {f}]] :
             f \in FallbackUsernames, a \in loop_exits(g)}

\* generate_username as its callers see it: the name returned, the path
\* that returned it and the generator state left
generate_username(g) ==
    {[result |-> o.result, path |-> o.path, g |-> o.g] :
        o \in username_attempts(g)}

\* mutant: every draw taken as new
any_mail_id(mail_id, g) == TRUE

\* if mail_id not in self.used_mail_ids
new_mail_id(mail_id, g) == mail_id \notin g.used_mail_ids

\* generate_mail_id: a draw not in the used set.  With every value used the
\* loop never ends and there is no outcome.
generate_mail_id(g) ==
    {[result |-> i, g |-> [g EXCEPT !.used_mail_ids = @ \cup {i}]] :
        i \in {x \in MailIdSamples : new_mail_id(x, g)}}

\* The values of the range 2700000000..2999999999 a call followed draw by
\* draw can draw: its first MaxMailIds values.
MaxMailIds == 4
MailIdRange == {mail_id_str(<<27000, k>>) : k \in 0..(MaxMailIds - 1)}

\* mutant: the 10-day total drawn over the whole range, whatever the
\* 30-day total
ten_day_total_independent(thirty) == randint(0, MaxSales30)

\* the 10-day total drawn for a 30-day total
ten_day_total(thirty) == IF thirty = 0 THEN {0} ELSE randint(0, thirty)

\* one iteration of the loop of generate_roster_data
roster_entry(g) ==
    UNION {
      {[result |-> VDict(<< <<VStr(Key.account), VStr(u.result)>>,
                            <<VStr(Key.joined), VInt(joined)>>,
                            <<VStr(Key.sales10), VInt(sales10)>>,
                            <<VStr(Key.purchases30), VInt(thirty[2])>>,
                            <<VStr(Key.sales30), VInt(thirty[1])>>,
                            <<VStr(Key.rank), VStr(rank)>>,
                            <<VStr(Key.purchases10), VInt(purchases10)>> >>),
        g |-> u.g] :
          sales10 \in ten_day_total(thirty[1]),
          purchases10 \in ten_day_total(thirty[2]),
          u \in generate_username(g),
          joined \in randint_wide(0, Now),
          rank \in Samples.rank} :
      thirty \in randint(0, MaxSales30) \X randint(0, MaxPurchases30)}

\* generate_roster_data(num_entries): the lists it can return, each with
\* the generator state it leaves
RECURSIVE generate_roster_data(_, _)
generate_roster_data(num_entries, g) ==
    IF num_entries <= 0 THEN {[result |-> <<>>, g |-> g]}
    ELSE UNION {
           {[result |-> <<e.result>> \o r.result, g |-> r.g] :
               r \in generate_roster_data(num_entries - 1, e.g)} :
           e \in roster_entry(g)}

\* the amount of one mail entry: a multiple of the ticket cost, or a
\* multiple plus an offset drawn by random.randint(1, ticket_cost - 1),
\* which raises ValueError when that range is empty
mail_amount(ticket_cost) ==
    {[amount |-> num_tickets * ticket_cost, branch |-> "valid",
      ticket_cost |-> ticket_cost, raised |-> ""] :
        num_tickets \in randint(1, MaxTickets)}
    \cup (IF randint(1, ticket_cost - 1) = {}
          THEN {[amount |-> 0, branch |-> "invalid",
                 ticket_cost |-> ticket_cost, raised |-> "ValueError"]}
          ELSE {[amount |-> base[1] * ticket_cost + base[2],
                 branch |-> "invalid", ticket_cost |-> ticket_cost,
                 raised |-> ""] :
                   base \in randint(1, MaxTickets) \X randint(1, ticket_cost - 1)})

\* one iteration of the loop of generate_mail_data.  log is the draw of
\* the amount; raised names what ends the call early ("NeverReturns" for
\* the endless loop of generate_mail_id).
mail_entry(ticket_cost, g) ==
    UNION {
      IF a.raised # ""
      THEN {[result |-> VDict(<<>>), g |-> g, raised |-> a.raised, log |-> a]}
      ELSE IF generate_mail_id(g) = {}
      THEN {[result |-> VDict(<<>>), g |-> g, raised |-> "NeverReturns",
             log |-> a]}
      ELSE UNION {
             {[result |-> VDict(<< <<VStr(Key.subject), VStr(subject)>>,
                                   <<VStr(Key.id), VStr(i.result)>>,
                                   <<VStr(Key.amount), VInt(a.amount)>>,
                                   <<VStr(Key.user), VStr(u.result)>> >>),
               g |-> u.g, raised |-> "", log |-> a] :
                 subject \in Samples.mail_subject,
                 u \in generate_username(i.g)} :
             i \in generate_mail_id(g)} :
      a \in mail_amount(ticket_cost)}

\* generate_mail_data(num_entries, ticket_cost)
RECURSIVE generate_mail_data(_, _, _)
generate_mail_data(num_entries, ticket_cost, g) ==
    IF num_entries <= 0
    THEN {[result |-> <<>>, g |-> g, raised |-> "", log |-> <<>>]}
    ELSE UNION {
           IF e.raised # ""
           THEN {[result |-> <<>>, g |-> e.g, raised |-> e.raised,
                  log |-> <<e.log>>]}
           ELSE {[result |-> IF r.raised = "" THEN <<e.result>> \o r.result
                             ELSE <<>>,
                  g |-> r.g, raised |-> r.raised,
                  log |-> <<e.log>> \o r.log] :
                    r \in generate_mail_data(num_entries - 1, ticket_cost, e.g)} :
           e \in mail_entry(ticket_cost, g)}

\* {"$AccountWide": account_data}
account_wide(account_data) == VDict(<< <<VStr(Key.AccountWide), VDict(account_data)>> >>)

\* mutant: the body is added without the subject
with_body_only(account_data) ==
    {account_data}
    \cup {account_data \o << <<VStr(Key.body), VStr(b)>> >> :
            b \in Samples.mail_body_template}

\* if random.random() < 0.7: add body and subject
with_templates(account_data) ==
    {account_data}
    \cup {account_data \o << <<VStr(Key.body), VStr(b)>>, <<VStr(Key.subject), VStr(s)>> >> :
            b \in Samples.mail_body_template, s \in Samples.mail_subjects_template}

generate_blank_account(ticket_cost, g) ==
    {[result |-> account_wide(<< <<VStr(Key.version), VInt(1)>>,
                                 <<VStr(Key.ticket_cost), VInt(ticket_cost)>> >>),
      g |-> g, raised |-> "", log |-> <<>>]}

generate_roster_account(ticket_cost, roster_entries, g) ==
    {[result |-> account_wide(<< <<VStr(Key.version), VInt(1)>>,
                                 <<VStr(Key.ticket_cost), VInt(ticket_cost)>>,
                                 <<VStr(Key.roster_data), VList(r.result)>>,
                                 <<VStr(Key.roster_timestamp), VInt(ts)>> >>),
      g |-> r.g, raised |-> "", log |-> <<>>] :
        r \in generate_roster_data(roster_entries, g),
        ts \in randint_wide(TimestampFloor, Now)}

generate_mail_account(ticket_cost, mail_entries, g) ==
    UNION {
      IF m.raised # ""
      THEN {[result |-> VDict(<<>>), g |-> m.g, raised |-> m.raised,
             log |-> m.log]}
      ELSE {[result |-> account_wide(d), g |-> m.g, raised |-> "",
             log |-> m.log] :
              d \in UNION {with_templates(
                              << <<VStr(Key.version), VInt(1)>>,
                                 <<VStr(Key.ticket_cost), VInt(ticket_cost)>>,
                                 <<VStr(Key.mail_data), VList(m.result)>>,
                                 <<VStr(Key.timestamp), VInt(ts)>> >>) :
                            ts \in randint_wide(TimestampFloor, Now)}} :
      m \in generate_mail_data(mail_entries, ticket_cost, g)}

generate_mixed_account(ticket_cost, roster_entries, mail_entries, g) ==
    UNION {
      IF m.raised # ""
      THEN {[result |-> VDict(<<>>), g |-> m.g, raised |-> m.raised,
             log |-> m.log]}
      ELSE {[result |-> account_wide(d[2]), g |-> d[1], raised |-> "",
             log |-> m.log] :
              d \in UNION {
                     {<<r.g, dd>> :
                        dd \in with_templates(
                              << <<VStr(Key.version), VInt(1)>>,
                                 <<VStr(Key.ticket_cost), VInt(ticket_cost)>>,
                                 <<VStr(Key.mail_data), VList(m.result)>>,
                                 <<VStr(Key.timestamp), VInt(tr[1])>>,
                                 <<VStr(Key.roster_data), VList(r.result)>>,
                                 <<VStr(Key.roster_timestamp), VInt(tr[2])>> >>)} :
                     r \in generate_roster_data(roster_entries, m.g),
                     tr \in randint_wide(TimestampFloor, Now)
                            \X randint_wide(TimestampFloor, Now)}} :
      m \in generate_mail_data(mail_entries, ticket_cost, g)}

\* lua_content of generate_file for the accounts built
lua_content(account_pairs) ==
    FileHeader
    \o format_lua_value(VDict(<< <<VStr(Key.Default), VDict(account_pairs)>> >>), 0)
    \o <<"\n">>

\* ------------------------------------------------------------ file system
\* Largest number of generator invocations followed one after the other.
MaxRuns == 2

OutLua == <<"o", "u", "t", ".", "l", "u", "a">>
MissingLua == <<"m", "i", "s", "s", "i", "n", "g", ".", "l", "u", "a">>
\* a path in a directory that does not exist
NoDirOutLua == <<"n", "o", "d", "i", "r", "/", "o", "u", "t", ".", "l", "u", "a">>

\* os.path.splitext(path): <<name, ext>>, cut at the last "." of the last
\* component unless only "." precede it there
splitext(path) ==
    LET sep == Max({0} \cup {i \in 1..Len(path) : path[i] = "/"})
        dot == Max({0} \cup {i \in 1..Len(path) : path[i] = "."})
    IN IF dot > sep /\ \E i \in (sep + 1)..(dot - 1) : path[i] # "."
       THEN <<SubSeq(path, 1, dot - 1), SubSeq(path, dot, Len(path))>>
       ELSE <<path, <<>>>>

\* f"{name}_{counter}{ext}"
numbered(parts, counter) ==
    parts[1] \o <<"_">> \o str_int(counter) \o parts[2]

\* Built-in defaults of the configuration.
DEFAULT_CONFIG ==
    [mail_entries_per_account |-> 10,
     roster_entries_per_account |-> 10,
     default_ticket_cost |-> 1000,
     default_output_filename |-> <<"R", "a", "f", "f", "l", "e", "M", "a", "n", "a", "g", "e", "r", "_", "G", "e", "n", "e", "r", "a", "t", "e", "d", ".", "l", "u", "a">>,
     account_types_enabled |-> {"blank", "roster", "mail", "mixed"},
     account_counts |-> [blank |-> 5, roster |-> 10, mail |-> 15, mixed |-> 20]]

\* the paths of the model: those a command can be given and the numbered
\* names of those an invocation can be asked to write
Paths ==
    {MissingLua, OutLua, NoDirOutLua, DEFAULT_CONFIG.default_output_filename}
    \cup {numbered(splitext(p), k) :
             p \in {OutLua, NoDirOutLua, DEFAULT_CONFIG.default_output_filename},
             k \in 1..(MaxRuns + 2)}
NoFile == [exists |-> FALSE, text |-> <<>>]

\* os.path.exists(path)
path_exists(disk, path) == path \in DOMAIN disk /\ disk[path].exists

\* open(path, 'w') raises FileNotFoundError: the directory of the path is
\* not there (the working directory is the only one of the model)
open_fails(path) == \E i \in 1..Len(path) : path[i] = "/"

\* mutant: the first numbered name returned without looking
numbered_name_unchecked(disk, parts, counter) == numbered(parts, counter)

\* while True: new_name = f"{name}_{counter}{ext}"; return it if it does
\* not exist; counter += 1
RECURSIVE numbered_name(_, _, _)
numbered_name(disk, parts, counter) ==
    IF ~path_exists(disk, numbered(parts, counter))
    THEN numbered(parts, counter)
    ELSE numbered_name(disk, parts, counter + 1)

get_unique_filename(disk, base_name) ==
    IF ~path_exists(disk, base_name)
    THEN base_name
    ELSE numbered_name(disk, splitext(base_name), 1)

\* ------------------------------------------------------------ invocations
\* An option of an invocation is <<>> when it is left out and <<v>> when it
\* is given as v.
option_value(option, default) == IF option = <<>> THEN default ELSE option[1]

\* Largest number of options in which an invocation departs from
\* BaseInvocation.
MaxDeviations == 1

\* python generate_raffle_data.py 1 0 0 0 -t 2 -f out.lua -r 1 -m 1, and the
\* same settings in the fields of the window
BaseInvocation ==
    [blank_count |-> 1, roster_count |-> 0, mail_count |-> 0,
     mixed_count |-> 0, ticket_cost |-> <<MaxTicketCost>>,
     filename |-> OutLua, roster_entries |-> <<1>>, mail_entries |-> <<1>>,
     reset_config |-> FALSE,
     enabled |-> DEFAULT_CONFIG.account_types_enabled]

\* The invocations the model makes: a blank count from -1 to 1 and the other
\* counts -1 or 0 (what the other builders put in a file is followed under
\* Spec), options left out or given from 0 up, the output path left out,
\* out.lua or a path that cannot be written, the reset flag, the blank
\* check box cleared.
Invocations ==
    {i \in [blank_count : -1..1, roster_count : -1..0, mail_count : -1..0,
            mixed_count : -1..0,
            ticket_cost : {<<>>} \cup {<<t>> : t \in 0..MaxTicketCost},
            filename : {<<>>, OutLua, NoDirOutLua},
            roster_entries : {<<>>, <<0>>, <<1>>},
            mail_entries : {<<>>, <<0>>, <<1>>},
            reset_config : BOOLEAN,
            enabled : {DEFAULT_CONFIG.account_types_enabled,
                       DEFAULT_CONFIG.account_types_enabled \ {"blank"}}] :
        Cardinality({f \in DOMAIN i : i[f] # BaseInvocation[f]}) <= MaxDeviations}

\* What config.json holds.  kind: "absent"; "object", a JSON object whose
\* members are values (a dict: a function on the keys present); "malformed",
\* text that is not JSON; "unreadable", open raises IOError; "non_object",
\* JSON that is not an object, such as []; "not_utf8", bytes that do not
\* decode.
Document(kind, values) == [kind |-> kind, values |-> values]

\* A configuration the program holds is [alias, values]: alias tells
\* whether it is the DEFAULT_CONFIG object itself.
\* mutant: the dict itself instead of a copy
dict_alias(d) == [alias |-> TRUE, values |-> d]

\* d.copy(): a new dict with the same members
dict_copy(d) == [alias |-> FALSE, values |-> d]

\* for key, default_value in DEFAULT_CONFIG.items():
\*     if key not in config: config[key] = default_value
fill_missing(stored, defaults) ==
    [k \in DOMAIN stored \cup DOMAIN defaults |->
       IF k \in DOMAIN stored THEN stored[k] ELSE defaults[k]]

\* load_config() on a document, with the DEFAULT_CONFIG object holding
\* defaults: the exception that leaves it ("" when it returns), the
\* configuration returned and the document afterwards.  Only
\* json.JSONDecodeError and IOError are caught.
load_outcome(doc, defaults) ==
    CASE doc.kind = "absent" ->
           [raised |-> "", config |-> dict_copy(defaults),
            doc |-> Document("object", defaults)]
      [] doc.kind = "object" ->
           [raised |-> "",
            config |-> [alias |-> FALSE,
                        values |-> fill_missing(doc.values, defaults)],
            doc |-> doc]
      [] doc.kind \in {"malformed", "unreadable"} ->
           [raised |-> "", config |-> dict_copy(defaults), doc |-> doc]
      [] doc.kind = "non_object" ->
           [raised |-> "TypeError", config |-> [alias |-> FALSE, values |-> <<>>], doc |-> doc]
      [] doc.kind = "not_utf8" ->
           [raised |-> "UnicodeDecodeError", config |-> [alias |-> FALSE, values |-> <<>>], doc |-> doc]

\* load_config() where config.json is absent or was written by save_config:
\* the values returned
load_config(file) ==
    load_outcome(IF file.exists THEN Document("object", file.values)
                 ELSE Document("absent", <<>>), DEFAULT_CONFIG).config.values

\* save_config(config): config.json holds the values
save_config(values) == [exists |-> TRUE, values |-> values]

\* args = parser.parse_args(): options left out take the loaded defaults
parse_args(i, cfg) ==
    [blank_count |-> i.blank_count, roster_count |-> i.roster_count,
     mail_count |-> i.mail_count, mixed_count |-> i.mixed_count,
     filename |-> i.filename,
     ticket_cost |-> option_value(i.ticket_cost, cfg.default_ticket_cost),
     roster_entries |->
         option_value(i.roster_entries, cfg.roster_entries_per_account),
     mail_entries |->
         option_value(i.mail_entries, cfg.mail_entries_per_account)]

\* mutant: a ticket cost of 0 let through
ticket_cost_negative(a) == a.ticket_cost < 0

\* if args.ticket_cost <= 0
ticket_cost_rejected(a) == a.ticket_cost <= 0

\* the checks of main in their order: the message printed before return 1,
\* "" when all pass
main_error(a) ==
    IF a.blank_count < 0 \/ a.roster_count < 0 \/ a.mail_count < 0
       \/ a.mixed_count < 0
    THEN "Error: All account counts must be non-negative"
    ELSE IF ticket_cost_rejected(a)
    THEN "Error: Ticket cost must be positive"
    ELSE IF a.roster_entries <= 0
    THEN "Error: Roster entries per account must be positive"
    ELSE IF a.mail_entries <= 0
    THEN "Error: Mail entries per account must be positive"
    ELSE IF a.blank_count + a.roster_count + a.mail_count + a.mixed_count = 0
    THEN "Error: At least one account must be specified"
    ELSE ""

\* config[...] = args....; if args.filename: config[...] = args.filename.
\* Its default_output_filename is then the path main asks for: args.filename
\* if given, else the default that was loaded.
main_config(a, cfg) ==
    [cfg EXCEPT !.default_ticket_cost = a.ticket_cost,
                !.roster_entries_per_account = a.roster_entries,
                !.mail_entries_per_account = a.mail_entries,
                !.default_output_filename =
                    IF a.filename # <<>> THEN a.filename ELSE @]

\* save_settings: every key of the configuration from the fields of the
\* window
gui_settings(i) ==
    [mail_entries_per_account |-> option_value(i.mail_entries, 10),
     roster_entries_per_account |-> option_value(i.roster_entries, 10),
     default_ticket_cost |-> option_value(i.ticket_cost, 1000),
     default_output_filename |->
         IF i.filename # <<>> THEN i.filename
         ELSE DEFAULT_CONFIG.default_output_filename,
     account_types_enabled |-> i.enabled,
     account_counts |-> [blank |-> i.blank_count, roster |-> i.roster_count,
                         mail |-> i.mail_count, mixed |-> i.mixed_count]]

\* generate_data: the parameters read from the fields of the window, the
\* count of a cleared check box 0
gui_args(i) ==
    [blank_count |-> IF "blank" \in i.enabled THEN i.blank_count ELSE 0,
     roster_count |-> IF "roster" \in i.enabled THEN i.roster_count ELSE 0,
     mail_count |-> IF "mail" \in i.enabled THEN i.mail_count ELSE 0,
     mixed_count |-> IF "mixed" \in i.enabled THEN i.mixed_count ELSE 0,
     filename |-> IF i.filename # <<>> THEN i.filename
                  ELSE DEFAULT_CONFIG.default_output_filename,
     ticket_cost |-> option_value(i.ticket_cost, 1000),
     roster_entries |-> option_value(i.roster_entries, 10),
     mail_entries |-> option_value(i.mail_entries, 10)]
FileOf(text) == [exists |-> TRUE, text |-> text]

\* ------------------------------------------------------------------ state
vars == <<fs, gen_pc, args, made, accounts, generator, mail_log, cli, fmt,
          inst, config, run, draw, conf, gui>>
gen_vars == <<gen_pc, args, made, accounts, generator, mail_log>>

NoArgs ==
    [blank_count |-> 0, roster_count |-> 0, mail_count |-> 0,
     mixed_count |-> 0, filename |-> <<>>, ticket_cost |-> 0,
     roster_entries |-> 0, mail_entries |-> 0]
NoCommand ==
    [prog |-> "", argv |-> <<>>, opened |-> {}, out |-> <<>>, exit |-> 0,
     raised |-> "", report |-> <<>>]


Init ==
    \* no generate_mail_id call is being followed
    /\ draw = [pc |-> "idle", attempts |-> 0, result |-> <<>>]
    \* config.json is absent and no configuration has been loaded
    /\ conf = [doc |-> Document("absent", <<>>),
               before |-> Document("absent", <<>>),
               defaults |-> DEFAULT_CONFIG, holding |-> FALSE,
               held |-> [alias |-> FALSE, values |-> <<>>], op |-> "", raised |-> ""]
    \* the window after create_widgets: the button enabled with its label,
    \* no worker thread, no callback waiting, nothing logged by generate_data
    /\ gui = [button |-> "normal", label |-> "GENERATE DATA", workers |-> {},
              queue |-> <<>>, log |-> <<>>, stderr |-> <<>>, calls |-> 0,
              finished |-> {}]
    /\ fs = [p \in Paths |-> NoFile]
    /\ gen_pc = "idle"
    /\ args = NoArgs
    /\ made = 0
    /\ accounts = <<>>
    /\ generator = NewGenerator
    /\ mail_log = <<>>
    /\ cli = NoCommand
    \* format_lua_value has not been called from outside
    /\ fmt = [called |-> FALSE, value |-> VInt(0), indent |-> 0, out |-> <<>>]
    \* nothing has been called on the instance directly
    /\ inst = [calls |-> <<>>, tested |-> 0, hung |-> FALSE, earlier |-> {}]
    \* config.json does not exist
    /\ config = [exists |-> FALSE, values |-> DEFAULT_CONFIG]
    \* nothing has been invoked
    /\ run = [count |-> 0, front |-> "", inv |-> BaseInvocation, status |-> "",
              out |-> "", exit |-> -1, before |-> [p \in Paths |-> NoFile],
              config_before |-> [exists |-> FALSE, values |-> DEFAULT_CONFIG]]

\* ---------------------------------------------------------- generate_file
total_accounts(a) ==
    a.blank_count + a.roster_count + a.mail_count + a.mixed_count

\* the roster and mail entries the accounts of a call hold in all
total_entries(a) ==
    a.roster_count * a.roster_entries + a.mail_count * a.mail_entries
    + a.mixed_count * (a.roster_entries + a.mail_entries)

\* The calls of generate_file the model makes: non-negative counts, a
\* positive ticket cost, positive entry counts (an entry count that no
\* account of the call uses is 1).
GenerateArgs ==
    {a \in [blank_count : 0..MaxRecords, roster_count : 0..MaxRecords,
            mail_count : 0..MaxRecords, mixed_count : 0..MaxRecords,
            filename : {OutLua}, ticket_cost : 1..MaxTicketCost,
            roster_entries : 1..MaxRecords, mail_entries : 1..MaxRecords] :
        /\ total_accounts(a) + total_entries(a) <= MaxRecords
        /\ (a.roster_count + a.mixed_count = 0 => a.roster_entries = 1)
        /\ (a.mail_count + a.mixed_count = 0 => a.mail_entries = 1)}

\* A new generator instance is made and generate_file is called on it.
StartGenerateFile ==
    /\ gen_pc = "idle"
    /\ \E a \in GenerateArgs : args' = a
    /\ gen_pc' = "generating"
    /\ made' = 0
    /\ accounts' = <<>>
    /\ generator' = NewGenerator
    /\ mail_log' = <<>>
    /\ UNCHANGED <<fs, cli, fmt, inst, config, run, draw, conf, gui>>

\* the outcomes of the account builder the loop of the kind calls, on a
\* generator state
account_builder(kind, g) ==
    CASE kind = "blank" -> generate_blank_account(args.ticket_cost, g)
      [] kind = "roster" ->
            generate_roster_account(args.ticket_cost, args.roster_entries, g)
      [] kind = "mail" ->
            generate_mail_account(args.ticket_cost, args.mail_entries, g)
      [] kind = "mixed" ->
            generate_mixed_account(args.ticket_cost, args.roster_entries,
                                   args.mail_entries, g)

\* username = self.generate_username(); accounts[username] = <account>:
\* one iteration of one of the four loops
LoopIteration(kind) ==
    \E u \in generate_username(generator) :
      \E b \in account_builder(kind, u.g) :
        /\ generator' = b.g
        /\ mail_log' = mail_log \o b.log
        /\ IF b.raised = ""
           THEN /\ accounts' = DictSet(accounts, VStr(u.result), b.result)
                /\ made' = made + 1
                /\ gen_pc' = "generating"
           ELSE /\ accounts' = accounts
                /\ made' = made
                /\ gen_pc' = IF b.raised = "NeverReturns" THEN "looping"
                             ELSE "raised"
        /\ UNCHANGED <<fs, args, cli, fmt, inst, config, run, draw, conf, gui>>

\* for _ in range(blank_count)
GenerateBlank ==
    /\ gen_pc = "generating"
    /\ made < args.blank_count
    /\ LoopIteration("blank")

\* for _ in range(roster_count)
GenerateRoster ==
    /\ gen_pc = "generating"
    /\ made >= args.blank_count
    /\ made < args.blank_count + args.roster_count
    /\ LoopIteration("roster")

\* for _ in range(mail_count)
GenerateMail ==
    /\ gen_pc = "generating"
    /\ made >= args.blank_count + args.roster_count
    /\ made < args.blank_count + args.roster_count + args.mail_count
    /\ LoopIteration("mail")

\* for _ in range(mixed_count)
GenerateMixed ==
    /\ gen_pc = "generating"
    /\ made >= args.blank_count + args.roster_count + args.mail_count
    /\ made < total_accounts(args)
    /\ LoopIteration("mixed")

\* with open(filename, 'w') as f: f.write(lua_content); the exception of
\* open goes through generate_file
WriteFile ==
    /\ gen_pc = "generating"
    /\ made = total_accounts(args)
    /\ IF open_fails(args.filename)
       THEN /\ fs' = fs
            /\ gen_pc' = "raised"
       ELSE /\ fs' = [fs EXCEPT ![args.filename] = FileOf(lua_content(accounts))]
            /\ gen_pc' = "written"
    /\ UNCHANGED <<args, made, accounts, generator, mail_log, cli, fmt, inst, config, run, draw, conf, gui>>

\* ------------------------------------------------------ the command lines
\* mutant: the two exit codes swapped
validate_exit_swapped(result) == IF result THEN 1 ELSE 0

\* if validate_roster_data(filename): sys.exit(0) else: sys.exit(1)
validate_exit(result) == IF result THEN 0 ELSE 1

\* validate.py after validate_roster_data returned r
validate_command(argv, r) ==
    [prog |-> "validate.py", argv |-> argv, opened |-> {argv[1]},
     out |-> r.out, exit |-> validate_exit(r.result),
     raised |-> "", report |-> r]

\* python validate.py argv...
validate_main(argv) ==
    IF Len(argv) # 1
    THEN [NoCommand EXCEPT !.prog = "validate.py", !.argv = argv,
                           !.out = <<Line("Usage", <<>>)>>, !.exit = 1]
    ELSE IF ~fs[argv[1]].exists
    THEN [NoCommand EXCEPT !.prog = "validate.py", !.argv = argv,
                           !.opened = {argv[1]},
                           !.out = <<Line("Validating", <<>>)>>,
                           !.raised = "FileNotFoundError", !.exit = 1]
    ELSE validate_command(argv, validate_roster_data(fs[argv[1]].text))

\* mutant: the script ends with 0 whatever happened
check_amounts_exit_zero(raised) == 0

\* the exit status of check_amounts.py after check_amounts(sys.argv[1]):
\* the script ends there, 0 unless an exception went through
check_amounts_exit(raised) == IF raised = "" THEN 0 ELSE 1

\* check_amounts.py after check_amounts ended with the report r
check_amounts_command(argv, r) ==
    [prog |-> "check_amounts.py", argv |-> argv, opened |-> {argv[1]},
     out |-> r.out, exit |-> check_amounts_exit(r.raised),
     raised |-> r.raised, report |-> r]

\* python check_amounts.py argv...
check_amounts_main(argv) ==
    IF Len(argv) # 1
    THEN [NoCommand EXCEPT !.prog = "check_amounts.py", !.argv = argv,
                           !.out = <<Line("Usage", <<>>)>>, !.exit = 1]
    ELSE IF ~fs[argv[1]].exists
    THEN [NoCommand EXCEPT !.prog = "check_amounts.py", !.argv = argv,
                           !.opened = {argv[1]},
                           !.raised = "FileNotFoundError",
                           !.exit = check_amounts_exit("FileNotFoundError")]
    ELSE check_amounts_command(argv, check_amounts(fs[argv[1]].text))

\* The validators run on the file of a finished generate_file call.
ValidateGenerated ==
    /\ gen_pc \in {"written", "raised", "looping"}
    /\ cli' = validate_main(<<args.filename>>)
    /\ UNCHANGED <<fs, gen_vars, fmt, inst, config, run, draw, conf, gui>>

CheckAmountsGenerated ==
    /\ gen_pc \in {"written", "raised", "looping"}
    /\ cli' = check_amounts_main(<<args.filename>>)
    /\ UNCHANGED <<fs, gen_vars, fmt, inst, config, run, draw, conf, gui>>

\* ------------------------------------------- externally supplied files
\* Files that did not come from the generator (edited by hand or supplied
\* from elsewhere): roster entries with arbitrary counters, in the layout
\* the serializer gives them, and ticket_cost / amount lines.
SeqsUpTo(S, n) == UNION {[1..k -> S] : k \in 0..n}

\* (sales10, purchases30, sales30, purchases10)
ExternalQuads ==
    {<<0, 0, 0, 0>>, <<1, 0, 0, 0>>, <<0, 0, 0, 1>>, <<1, 0, 1, 0>>,
     <<0, 1, 0, 1>>, <<1, 1, 0, 1>>, <<1, 0, 0, 1>>, <<0, 1, 1, 0>>,
     <<10, 0, 9, 0>>}

ExternalRosterEntry(q) ==
    format_lua_value(
        VDict(<< <<VStr(Key.sales10), VInt(q[1])>>,
                 <<VStr(Key.purchases30), VInt(q[2])>>,
                 <<VStr(Key.sales30), VInt(q[3])>>,
                 <<VStr(Key.rank), VStr(<<"M", "e", "m", "b", "e", "r">>)>>,
                 <<VStr(Key.purchases10), VInt(q[4])>> >>), 0)
    \o <<",", "\n">>

\* an entry cut off after its first two counters
TruncatedRosterEntry ==
    format_lua_value(
        VDict(<< <<VStr(Key.sales10), VInt(1)>>,
                 <<VStr(Key.purchases30), VInt(1)>> >>), 0)
    \o <<",", "\n">>

ExternalRosterFragments ==
    {ExternalRosterEntry(q) : q \in ExternalQuads} \cup {TruncatedRosterEntry}

ExternalLine(key, n) ==
    dict_line(<<>>, key_str(VStr(key)), str_int(n)) \o <<"\n">>

ExternalAmountFragments ==
    {ExternalLine(Key.ticket_cost, n) : n \in {0, 2, 3}}
    \cup {ExternalLine(Key.amount, n) : n \in {0, 3, 4, 6}}
    \cup {ExternalLine(Key.version, 1)}

ExternalTexts ==
    {Concat(s) : s \in SeqsUpTo(ExternalRosterFragments, MaxRosterFragments)}
    \cup {Concat(s) : s \in SeqsUpTo(ExternalAmountFragments, MaxAmountFragments)}

\* A file is put at out.lua from outside.
SupplyFile ==
    /\ gen_pc = "idle"
    /\ ~fs[OutLua].exists
    /\ \E text \in ExternalTexts :
          fs' = [fs EXCEPT ![OutLua] = FileOf(text)]
    /\ cli' = NoCommand
    /\ UNCHANGED <<gen_vars, fmt, inst, config, run, draw, conf, gui>>

\* The command lines the model runs.
Argvs == {<<>>, <<OutLua>>, <<MissingLua>>, <<OutLua, OutLua>>}

RunValidate ==
    /\ gen_pc = "idle"
    /\ \E argv \in Argvs : cli' = validate_main(argv)
    /\ UNCHANGED <<fs, gen_vars, fmt, inst, config, run, draw, conf, gui>>

RunCheckAmounts ==
    /\ gen_pc = "idle"
    /\ \E argv \in Argvs : cli' = check_amounts_main(argv)
    /\ UNCHANGED <<fs, gen_vars, fmt, inst, config, run, draw, conf, gui>>

\* --------------------------------------- format_lua_value called directly
FmtStrings == {<<>>, <<"a">>, <<"a", "\"", "b">>, <<"\"", "\"">>}
FmtScalars ==
    {VInt(0), VInt(12), VInt(-3), VBool(TRUE), VBool(FALSE)}
    \cup {VStr(s) : s \in FmtStrings}
FmtKeys == {VStr(<<"k">>), VStr(Key.id), VInt(1), VInt(5)}
FmtNested ==
    {VInt(12), VStr(<<"a", "\"", "b">>), VList(<<>>), VDict(<<>>),
     VList(<<VInt(0), VStr(<<"a">>)>>),
     VDict(<< <<VStr(<<"k">>), VStr(<<"\"", "\"">>)>>, <<VInt(5), VInt(0)>> >>)}

\* the dicts with at most MaxLen keys, all different, and values in S
DictsOver(S) ==
    {VDict(p) : p \in {q \in SeqsUpTo(FmtKeys \X S, MaxLen) :
                         \A i, j \in 1..Len(q) : i # j => q[i][1] # q[j][1]}}
ListsOver(S) == {VList(s) : s \in SeqsUpTo(S, MaxLen)}

FmtValues ==
    FmtScalars \cup ListsOver(FmtScalars) \cup ListsOver(FmtNested)
    \cup DictsOver(FmtNested)

\* One call is followed.
FormatValue ==
    /\ gen_pc = "idle"
    /\ ~fmt.called
    /\ \E value \in FmtValues, indent \in 0..MaxIndent :
          fmt' = [called |-> TRUE, value |-> value, indent |-> indent,
                  out |-> format_lua_value(value, indent)]
    /\ UNCHANGED <<fs, gen_vars, cli, inst, config, run, draw, conf, gui>>

\* -------------------------------- methods called on one instance directly
\* Largest number of generate_username / generate_mail_id calls followed on
\* one instance.
MaxCalls == 4

\* generator = RaffleDataGenerator(); earlier keeps the mail ids the
\* instances before it returned
NewInstance ==
    /\ gen_pc = "idle"
    /\ inst.calls # <<>>
    /\ generator' = NewGenerator
    /\ inst' = [calls |-> <<>>, tested |-> 0, hung |-> FALSE,
                earlier |-> inst.earlier \cup
                    {inst.calls[i].result :
                        i \in {k \in 1..Len(inst.calls) :
                                 inst.calls[k].op = "generate_mail_id"}}]
    /\ UNCHANGED <<fs, gen_pc, args, made, accounts, mail_log, cli, fmt,
                   config, run, draw, conf, gui>>

\* generator.generate_username()
CallGenerateUsername ==
    /\ gen_pc = "idle"
    /\ ~inst.hung
    /\ Len(inst.calls) < MaxCalls
    /\ \E o \in username_attempts(generator) :
          /\ generator' = o.g
          /\ inst' = [calls |-> Append(inst.calls,
                                       [op |-> "generate_username",
                                        result |-> o.result, path |-> o.path]),
                      tested |-> o.tested, hung |-> FALSE,
                      earlier |-> inst.earlier]
    /\ UNCHANGED <<fs, gen_pc, args, made, accounts, mail_log, cli, fmt,
                   config, run, draw, conf, gui>>

\* generator.generate_mail_id(): with no draw left that is not in the used
\* set the call never returns
CallGenerateMailId ==
    /\ gen_pc = "idle"
    /\ ~inst.hung
    /\ Len(inst.calls) < MaxCalls
    /\ IF generate_mail_id(generator) = {}
       THEN /\ inst' = [inst EXCEPT !.hung = TRUE]
            /\ generator' = generator
       ELSE \E o \in generate_mail_id(generator) :
              /\ generator' = o.g
              /\ inst' = [calls |-> Append(inst.calls,
                                           [op |-> "generate_mail_id",
                                            result |-> o.result,
                                            path |-> "retry"]),
                          tested |-> 0, hung |-> FALSE,
                          earlier |-> inst.earlier]
    /\ UNCHANGED <<fs, gen_pc, args, made, accounts, mail_log, cli, fmt,
                   config, run, draw, conf, gui>>

\* --------------------------------------- the generator's two front ends
\* the state an invocation leaves when it returns before generate_file;
\* exit is the value main returns, -1 where there is none
NotGenerating(r, status, out, exit) ==
    /\ gen_pc' = "idle"
    /\ args' = NoArgs
    /\ made' = 0
    /\ accounts' = <<>>
    /\ generator' = NewGenerator
    /\ mail_log' = <<>>
    /\ run' = [r EXCEPT !.status = status, !.out = out, !.exit = exit]

\* generator = RaffleDataGenerator(); generator.generate_file(...) begins
Generating(r, a) ==
    /\ gen_pc' = "generating"
    /\ args' = a
    /\ made' = 0
    /\ accounts' = <<>>
    /\ generator' = NewGenerator
    /\ mail_log' = <<>>
    /\ run' = [r EXCEPT !.status = "generating"]

\* the record of an invocation as it starts
Invoked(front, i) ==
    [count |-> run.count + 1, front |-> front, inv |-> i, status |-> "",
     out |-> "", exit |-> -1, before |-> fs, config_before |-> config]

\* main() of generate_raffle_data.py up to the call of generate_file, whose
\* steps are the loop iterations and WriteFile
MainStart ==
    /\ gen_pc \in {"idle", "written", "raised"}
    /\ run.count < MaxRuns
    /\ \E i \in Invocations :
        \E cfg \in {load_config(config)} :
        \E a \in {parse_args(i, cfg)} :
          IF i.reset_config
          THEN /\ config' = save_config(DEFAULT_CONFIG)
               /\ NotGenerating(Invoked("cli", i), "reset",
                                "Configuration reset to defaults:", 0)
          ELSE IF main_error(a) # ""
          THEN /\ config' = save_config(cfg)
               /\ NotGenerating(Invoked("cli", i), "rejected", main_error(a),
                                1)
          ELSE /\ config' = save_config(main_config(a, cfg))
               /\ Generating(Invoked("cli", i),
                             [a EXCEPT !.filename =
                                 get_unique_filename(
                                     fs, main_config(a, cfg).default_output_filename)])
    /\ UNCHANGED <<fs, cli, fmt, inst, draw, conf, gui>>

\* generate_data of the window up to the start of the worker, whose steps
\* are the loop iterations and WriteFile on the path of the filename field.
\* The counts of the fields are not negative.
GuiStart ==
    /\ gen_pc \in {"idle", "written", "raised"}
    /\ run.count < MaxRuns
    /\ \E i \in {x \in Invocations :
                    /\ ~x.reset_config
                    /\ x.blank_count >= 0 /\ x.roster_count >= 0
                    /\ x.mail_count >= 0 /\ x.mixed_count >= 0} :
        \E a \in {gui_args(i)} :
          /\ config' = save_config(gui_settings(i))
          /\ IF total_accounts(a) = 0
             THEN NotGenerating(Invoked("gui", i), "rejected",
                                "No accounts selected for generation", -1)
             ELSE Generating(Invoked("gui", i), a)
    /\ UNCHANGED <<fs, cli, fmt, inst, draw, conf, gui>>

\* the text of a file that something else put in the working directory
OtherText == <<"-", "-">>

\* Between two invocations a file appears at out.lua or out_1.lua.
OtherFile ==
    /\ gen_pc \in {"idle", "written", "raised"}
    /\ run.count < MaxRuns
    /\ \E p \in {OutLua, numbered(splitext(OutLua), 1)} :
          /\ ~fs[p].exists
          /\ fs' = [fs EXCEPT ![p] = FileOf(OtherText)]
    /\ UNCHANGED <<gen_vars, cli, fmt, inst, config, run, draw, conf, gui>>
\* A generate_file call on a new generator, then the validators on its file.
Next ==
    \/ StartGenerateFile
    \/ GenerateBlank
    \/ GenerateRoster
    \/ GenerateMail
    \/ GenerateMixed
    \/ WriteFile
    \/ ValidateGenerated
    \/ CheckAmountsGenerated

Spec == Init /\ [][Next]_vars

\* The validator command lines on files supplied from outside.
SpecCLI ==
    Init /\ [][SupplyFile \/ RunValidate \/ RunCheckAmounts]_vars

\* format_lua_value on the values of FmtValues.
SpecFormat ==
    Init /\ [][FormatValue]_vars

\* generate_username and generate_mail_id called on generator instances.
SpecInstance ==
    Init /\ [][NewInstance \/ CallGenerateUsername \/ CallGenerateMailId]_vars

\* Invocations of the generator from the command line and from the window.
SpecMain ==
    Init /\ [][MainStart \/ GuiStart \/ OtherFile \/ GenerateBlank \/ WriteFile]_vars

\* ------------------------------------------------------------- properties
\* the value of the field key of a record (a dict with string keys)
Field(record, key) == DictGet(record.v, VStr(key)).v

\* the account_data of the accounts built so far
AccountData == {DictGet(accounts[i][2].v, VStr(Key.AccountWide)) : i \in 1..Len(accounts)}

\* the roster entries generate_roster_data returned for them
GeneratedRosterEntries ==
    UNION {{Field(d, Key.roster_data)[k] : k \in 1..Len(Field(d, Key.roster_data))} :
             d \in {x \in AccountData : DictHas(x.v, VStr(Key.roster_data))}}

\* C1: every roster entry generate_roster_data produced has
\* sales10 <= sales30 and purchases10 <= purchases30, and a 30-day total of
\* 0 comes with a 10-day total of 0.
C1_RosterWindows ==
    \A e \in GeneratedRosterEntries :
        /\ Field(e, Key.sales10) >= 0
        /\ Field(e, Key.sales10) <= Field(e, Key.sales30)
        /\ Field(e, Key.purchases10) >= 0
        /\ Field(e, Key.purchases10) <= Field(e, Key.purchases30)
        /\ (Field(e, Key.sales30) = 0 => Field(e, Key.sales10) = 0)
        /\ (Field(e, Key.purchases30) = 0 => Field(e, Key.purchases10) = 0)

\* a roster entry with a forced 0 and one that reaches its 30-day total
C1_Witness ==
    /\ \E e \in GeneratedRosterEntries :
         /\ Field(e, Key.sales30) = 0
         /\ Field(e, Key.purchases30) > 0
         /\ Field(e, Key.purchases10) = Field(e, Key.purchases30)
    /\ \E e \in GeneratedRosterEntries :
         /\ Field(e, Key.sales30) > 0
         /\ Field(e, Key.sales10) < Field(e, Key.sales30)

\* validate.py has just been run on the file a generate_file call wrote
ValidatedGenerated ==
    /\ gen_pc = "written"
    /\ cli.prog = "validate.py"
    /\ cli.argv = <<args.filename>>

\* C2: validate_roster_data on a file generate_file wrote records no
\* violation and returns True.
C2_GeneratedFileValidates ==
    ValidatedGenerated =>
        /\ cli.raised = ""
        /\ cli.report.issues = <<>>
        /\ cli.report.result = TRUE
        /\ cli.exit = 0

\* a written file with two roster entries, one of them with equal sales
\* totals, has been validated
C2_Witness ==
    /\ ValidatedGenerated
    /\ Len(cli.report.entries) = 2
    /\ Cardinality(GeneratedRosterEntries) = 2
    /\ \E i \in 1..2 : /\ cli.report.entries[i].sales10 = cli.report.entries[i].sales30
                       /\ cli.report.entries[i].sales30 > 0

\* validate_roster_data has run to its end in the last command
ValidateReturned ==
    /\ cli.prog = "validate.py"
    /\ Len(cli.argv) = 1
    /\ cli.raised = ""

\* the quadruple (sales10, purchases30, sales30, purchases10) is one the
\* validator has to flag
QuadViolates(match) ==
    \/ int_of(match[1]) > int_of(match[3])
    \/ int_of(match[4]) > int_of(match[2])

\* C3: validate_roster_data flags an extracted quadruple exactly when
\* sales10 > sales30 or purchases10 > purchases30, and returns True exactly
\* when no quadruple is flagged (so with no quadruple at all).
C3_FlagsExactly ==
    ValidateReturned =>
        LET r == cli.report
        IN /\ \A i \in 1..Len(r.matches) :
                  (\E k \in 1..Len(r.issues) : r.issues[k].entry = i)
                  <=> QuadViolates(r.matches[i])
           /\ \A k \in 1..Len(r.issues) : r.issues[k].entry \in 1..Len(r.matches)
           /\ r.result <=> (\A i \in 1..Len(r.matches) : ~QuadViolates(r.matches[i]))
           /\ (r.matches = <<>> => r.result)

\* two quadruples were extracted, the first flagged and the second not
C3_Witness ==
    /\ ValidateReturned
    /\ Len(cli.report.matches) = 2
    /\ QuadViolates(cli.report.matches[1])
    /\ ~QuadViolates(cli.report.matches[2])
    /\ cli.report.result = FALSE

\* ---- the lines of an externally supplied file, read without the patterns
\* the text of t from position p to the end of its line
RECURSIVE LineFrom(_, _)
LineFrom(t, p) ==
    IF p > Len(t) \/ t[p] = "\n" THEN <<>> ELSE <<t[p]>> \o LineFrom(t, p + 1)

\* the positions at which the lines of t start
LineStarts(t) == {p \in 1..Len(t) : p = 1 \/ t[p - 1] = "\n"}

\* the i-th smallest element of a set of numbers
NthMin(S, i) == CHOOSE x \in S : Cardinality({y \in S : y < x}) = i - 1

\* the numbers of the lines `    ["key"] = number,` of t, top to bottom
LineValues(t, key) ==
    LET prefix == Spaces(1) \o KeyLit(key) \o <<" ", "=", " ">>
        starts == {p \in LineStarts(t) : LitAt(t, p, prefix)}
    IN [i \in 1..Cardinality(starts) |->
          LET line == LineFrom(t, NthMin(starts, i))
          IN int_of(SubSeq(line, Len(prefix) + 1, Len(line) - 1))]

\* a command was given exactly one argument, the path of a file that exists
RanOnFile(prog) ==
    /\ cli.prog = prog
    /\ Len(cli.argv) = 1
    /\ fs[cli.argv[1]].exists

\* the file the last command was given
GivenText == fs[cli.argv[1]].text

\* what the original C4 calls a consistent file, for each validator
ConsistentForValidate ==
    /\ cli.report.matches # <<>>
    /\ \A i \in 1..Len(cli.report.matches) : ~QuadViolates(cli.report.matches[i])
ConsistentForCheckAmounts ==
    /\ LineValues(GivenText, Key.ticket_cost) # <<>>
    /\ LineValues(GivenText, Key.amount) # <<>>
    /\ LineValues(GivenText, Key.ticket_cost)[1] # 0
    /\ \A i \in 1..Len(LineValues(GivenText, Key.amount)) :
          LineValues(GivenText, Key.amount)[i] % LineValues(GivenText, Key.ticket_cost)[1] = 0

UsageError ==
    /\ cli.out = <<Line("Usage", <<>>)>>
    /\ cli.exit # 0
    /\ cli.opened = {}

C5_MailAmounts ==
    /\ gen_pc # "raised"
    /\ \A k \in 1..Len(mail_log) :
         LET a == mail_log[k]
         IN /\ a.raised = ""
            /\ a.ticket_cost > 0
            /\ a.amount > 0
            /\ a.branch = "valid" =>
                  \E m \in 1..MaxTickets : a.amount = m * a.ticket_cost
            /\ a.branch = "invalid" =>
                  /\ \E m \in 1..MaxTickets, offset \in 1..(a.ticket_cost - 1) :
                        a.amount = m * a.ticket_cost + offset
                  /\ a.amount % a.ticket_cost # 0

\* check_amounts has classified the amounts of the file it was given
AmountsReported ==
    /\ RanOnFile("check_amounts.py")
    /\ cli.raised = ""
    /\ \E k \in 1..Len(cli.out) : cli.out[k].msg = "Total"

\* C6: check_amounts divides by the first ticket_cost of the text, extracts
\* every amount of the text, counts an amount as valid exactly when
\* amount mod ticket_cost = 0 and as invalid otherwise, and the two counts
\* add up to the number of amounts.
C6_Classification ==
    AmountsReported =>
        LET r == cli.report
            costs == LineValues(GivenText, Key.ticket_cost)
            amounts == LineValues(GivenText, Key.amount)
            cost == costs[1]
            count(seq, x) == Cardinality({i \in 1..Len(seq) : seq[i] = x})
        IN /\ r.ticket_cost = cost
           /\ r.amounts = amounts
           /\ \A i \in 1..Len(r.valid) : r.valid[i] % cost = 0
           /\ \A i \in 1..Len(r.invalid) : r.invalid[i] % cost # 0
           /\ \A i \in 1..Len(amounts) :
                 /\ amounts[i] % cost = 0 =>
                       count(r.valid, amounts[i]) = count(amounts, amounts[i])
                 /\ amounts[i] % cost # 0 =>
                       count(r.invalid, amounts[i]) = count(amounts, amounts[i])
           /\ Len(r.valid) + Len(r.invalid) = Len(amounts)
           /\ cli.out[2] = Line("Total", <<Len(amounts)>>)
           /\ cli.out[3] = Line("Valid", <<Len(r.valid), Len(amounts)>>)
           /\ cli.out[4] = Line("Invalid", <<Len(r.invalid), Len(amounts)>>)

\* the file holds two different ticket costs, the first divides no amount
\* and the second would divide it
C6_Witness ==
    /\ AmountsReported
    /\ Len(LineValues(GivenText, Key.ticket_cost)) = 2
    /\ LineValues(GivenText, Key.ticket_cost)[1] = 2
    /\ LineValues(GivenText, Key.ticket_cost)[2] = 3
    /\ cli.report.invalid = <<3>>

\* C7: check_amounts with no ticket_cost in the file prints the "ticket
\* cost not found" diagnostic and nothing else; with a ticket cost and no
\* amount it prints the ticket cost and the "no amounts found" diagnostic
\* and nothing else: no statistics, and no division by a zero total.
C7_ShortCircuits ==
    RanOnFile("check_amounts.py") =>
        /\ LineValues(GivenText, Key.ticket_cost) = <<>> =>
              /\ cli.out = <<Line("NoTicketCost", <<>>)>>
              /\ cli.raised = ""
              /\ cli.report.amounts = <<>>
        /\ (/\ LineValues(GivenText, Key.ticket_cost) # <<>>
            /\ LineValues(GivenText, Key.amount) = <<>>) =>
              /\ cli.out = <<Line("TicketCost",
                                  <<LineValues(GivenText, Key.ticket_cost)[1]>>),
                             Line("NoAmounts", <<>>)>>
              /\ cli.raised = ""

\* a file with a ticket cost and no amount was checked
C7_Witness ==
    /\ RanOnFile("check_amounts.py")
    /\ LineValues(GivenText, Key.ticket_cost) # <<>>
    /\ LineValues(GivenText, Key.amount) = <<>>
    /\ cli.out[Len(cli.out)] = Line("NoAmounts", <<>>)

\* C8: check_amounts on a readable file in which a ticket cost and at least
\* one amount are found reports the counts and completes normally, whatever
\* the ticket cost and however many amounts it does not divide.
C8_NeverFails ==
    (/\ RanOnFile("check_amounts.py")
     /\ LineValues(GivenText, Key.ticket_cost) # <<>>
     /\ LineValues(GivenText, Key.amount) # <<>>) =>
        /\ cli.raised = ""
        /\ cli.exit = 0
        /\ \E k \in 1..Len(cli.out) : cli.out[k].msg = "Total"

\* ---- a rendered brace block, read back without the serializer
\* the positions at which the entries of the block start: the lines that
\* begin with the indentation of the block's entries and then "["
EntryStarts(text, indent) ==
    {p \in 2..Len(text) :
        /\ text[p - 1] = "\n"
        /\ LitAt(text, p, Spaces(indent + 1) \o <<"[">>)}

\* the closing line of the block
BlockEnd(indent) == <<"\n">> \o Spaces(indent) \o <<"}">>

\* the text opens and closes as a brace block at the indent
IsBlock(text, indent) ==
    /\ Len(text) >= 2 + Len(BlockEnd(indent))
    /\ text[1] = "{"
    /\ text[2] = "\n"
    /\ LitAt(text, Len(text) - Len(BlockEnd(indent)) + 1, BlockEnd(indent))

\* the i-th entry of the block, from its indentation to its closing comma
Entry(text, indent, i) ==
    LET starts == EntryStarts(text, indent)
        from == NthMin(starts, i)
        to == IF i < Cardinality(starts) THEN NthMin(starts, i + 1) - 2
              ELSE Len(text) - Len(BlockEnd(indent))
    IN SubSeq(text, from, to)

\* body is s with a backslash put before each double quote
RECURSIVE EscapesQuotesOf(_, _)
EscapesQuotesOf(body, s) ==
    IF s = <<>> THEN body = <<>>
    ELSE IF s[1] = "\""
         THEN /\ Len(body) >= 2
              /\ body[1] = "\\"
              /\ body[2] = "\""
              /\ EscapesQuotesOf(SubSeq(body, 3, Len(body)), Tail(s))
         ELSE /\ Len(body) >= 1
              /\ body[1] = s[1]
              /\ EscapesQuotesOf(Tail(body), Tail(s))

\* text is the string s in double quotes, its double quotes escaped
IsQuoted(text, s) ==
    /\ Len(text) >= 2
    /\ text[1] = "\""
    /\ text[Len(text)] = "\""
    /\ EscapesQuotesOf(SubSeq(text, 2, Len(text) - 1), s)

\* C9: format_lua_value of a non-empty sequence of n items is a brace block
\* of exactly n entries with the keys 1, 2, ..., n in that order, the entry
\* of key i holding the rendering of the i-th item.
C9_SequenceKeys ==
    (fmt.called /\ fmt.value.t = "list" /\ fmt.value.v # <<>>) =>
        LET items == fmt.value.v
        IN /\ IsBlock(fmt.out, fmt.indent)
           /\ Cardinality(EntryStarts(fmt.out, fmt.indent)) = Len(items)
           /\ \A i \in 1..Len(items) :
                 Entry(fmt.out, fmt.indent, i) =
                    Spaces(fmt.indent + 1) \o <<"[">> \o str_int(i)
                    \o <<"]", " ", "=", " ">>
                    \o format_lua_value(items[i], fmt.indent + 1) \o <<",">>

\* a sequence of two items, the first a non-empty sequence itself
C9_Witness ==
    /\ fmt.called
    /\ fmt.value.t = "list"
    /\ Len(fmt.value.v) = 2
    /\ fmt.value.v[1].t = "list"
    /\ fmt.value.v[1].v # <<>>
    /\ fmt.indent = 1

\* the rendering expected of a mapping key: a string in double quotes, an
\* integer bare
ExpectedKey(key) ==
    IF key.t = "str" THEN <<"[", "\"">> \o key.v \o <<"\"", "]">>
    ELSE <<"[">> \o str_int(key.v) \o <<"]">>

\* C10: format_lua_value of a non-empty mapping is a brace block with one
\* entry `[key] = value,` per key, in insertion order, string keys in
\* double quotes and integer keys bare; a string value is rendered in double
\* quotes with a backslash before each double quote in it.
C10_MappingEntries ==
    /\ (fmt.called /\ fmt.value.t = "str") => IsQuoted(fmt.out, fmt.value.v)
    /\ (fmt.called /\ fmt.value.t = "dict" /\ fmt.value.v # <<>>) =>
        LET pairs == fmt.value.v
        IN /\ IsBlock(fmt.out, fmt.indent)
           /\ Cardinality(EntryStarts(fmt.out, fmt.indent)) = Len(pairs)
           /\ \A i \in 1..Len(pairs) :
                 LET entry == Entry(fmt.out, fmt.indent, i)
                     head == Spaces(fmt.indent + 1) \o ExpectedKey(pairs[i][1])
                             \o <<" ", "=", " ">>
                     val == SubSeq(entry, Len(head) + 1, Len(entry) - 1)
                 IN /\ Len(entry) > Len(head)
                    /\ SubSeq(entry, 1, Len(head)) = head
                    /\ entry[Len(entry)] = ","
                    /\ IF pairs[i][2].t = "str"
                       THEN IsQuoted(val, pairs[i][2].v)
                       ELSE val = format_lua_value(pairs[i][2], fmt.indent + 1)

\* a mapping of an integer key then a string key, with a string value that
\* holds a double quote
C10_Witness ==
    /\ fmt.called
    /\ fmt.value.t = "dict"
    /\ Len(fmt.value.v) = 2
    /\ fmt.value.v[1][1].t = "int"
    /\ fmt.value.v[2][1].t = "str"
    /\ fmt.value.v[2][2].t = "str"
    /\ \E k \in 1..Len(fmt.value.v[2][2].v) : fmt.value.v[2][2].v[k] = "\""

\* the literal expected of a boolean
BoolLiteral(b) ==
    IF b THEN <<"t", "r", "u", "e">> ELSE <<"f", "a", "l", "s", "e">>

\* the entry of key i of a rendered sequence holds exactly the text val
EntryHolds(i, val) ==
    Entry(fmt.out, fmt.indent, i) =
       Spaces(fmt.indent + 1) \o <<"[">> \o str_int(i) \o <<"]", " ", "=", " ">>
       \o val \o <<",">>

\* C11: format_lua_value renders the boolean true as the literal `true` and
\* the boolean false as the literal `false`, on its own and as an item of a
\* sequence.
C11_BooleanLiterals ==
    /\ (fmt.called /\ fmt.value.t = "bool") =>
          fmt.out = BoolLiteral(fmt.value.v)
    /\ (fmt.called /\ fmt.value.t = "list") =>
          \A i \in 1..Len(fmt.value.v) :
             fmt.value.v[i].t = "bool" =>
                EntryHolds(i, BoolLiteral(fmt.value.v[i].v))

\* C12: format_lua_value of an empty mapping and of an empty sequence is
\* the two-character text `{}`, at every indent, on its own and as an item
\* of a sequence.
C12_EmptyContainers ==
    /\ (fmt.called /\ fmt.value.t \in {"dict", "list"} /\ fmt.value.v = <<>>) =>
          fmt.out = <<"{", "}">>
    /\ (fmt.called /\ fmt.value.t = "list") =>
          \A i \in 1..Len(fmt.value.v) :
             (fmt.value.v[i].t \in {"dict", "list"} /\ fmt.value.v[i].v = <<>>) =>
                EntryHolds(i, <<"{", "}">>)

\* an empty sequence and an empty mapping rendered as the items of a
\* sequence, below the top indent
C12_Witness ==
    /\ fmt.called
    /\ fmt.value = VList(<<VList(<<>>), VDict(<<>>)>>)
    /\ fmt.indent = MaxIndent
    /\ fmt.indent > 0

\* ------------------------------------------------ usernames and mail ids
\* the calls of op made on the instance so far, by position
CallsOf(op) == {i \in 1..Len(inst.calls) : inst.calls[i].op = op}

LastCall == inst.calls[Len(inst.calls)]

\* generate_username has just returned
UsernameReturned ==
    /\ inst.calls # <<>>
    /\ LastCall.op = "generate_username"

\* C14: generate_username returns from every used set; it tests at most 100
\* candidates against the used set; a name returned from the loop is a
\* candidate of the loop, tested as one of those at most 100; the fallback
\* name (adjective plus 6-digit time suffix) is returned only after exactly
\* 100 candidates collided, and it is not tested against the used set.
C14_UsernameTerminates ==
    /\ username_attempts(generator) # {}
    /\ \A o \in username_attempts(generator) : o.tested <= 100
    /\ UsernameReturned =>
          /\ inst.tested <= 100
          /\ LastCall.result \in generator.used_usernames
          /\ LastCall.path = "retry" =>
                /\ LastCall.result \in UsernameCandidates
                /\ inst.tested >= 1
          /\ LastCall.path = "fallback" =>
                /\ inst.tested = 100
                /\ LastCall.result \in FallbackUsernames
                /\ Len(LastCall.result) > 7
                /\ LastCall.result[1] = "@"
                /\ ~IsDigit(LastCall.result[Len(LastCall.result) - 6])
                /\ \A k \in (Len(LastCall.result) - 5)..Len(LastCall.result) :
                      IsDigit(LastCall.result[k])

\* the fallback has returned, after 100 collisions, a name the instance had
\* returned before
C14_Witness ==
    /\ UsernameReturned
    /\ LastCall.path = "fallback"
    /\ inst.tested = 100
    /\ \E i \in 1..(Len(inst.calls) - 1) : inst.calls[i].result = LastCall.result

\* C15: within one instance a name generate_username returns from its retry
\* loop differs from every name the instance returned before; the used set
\* holds exactly the names returned.
C15_RetryNamesFresh ==
    /\ \A j \in CallsOf("generate_username") :
          inst.calls[j].path = "retry" =>
              \A i \in CallsOf("generate_username") :
                  i < j => inst.calls[i].result # inst.calls[j].result
    /\ generator.used_usernames =
          {inst.calls[i].result : i \in CallsOf("generate_username")}

\* a fallback name repeats an earlier name, and a later call of the retry
\* loop returns a name that is new
C15_Witness ==
    \E i, j, k \in CallsOf("generate_username") :
        /\ i < j
        /\ j < k
        /\ inst.calls[j].path = "fallback"
        /\ inst.calls[j].result = inst.calls[i].result
        /\ inst.calls[k].path = "retry"

\* a 10-digit decimal numeral from 2700000000 to 2999999999
InMailIdRange(text) ==
    /\ Len(text) = 10
    /\ \A k \in 1..Len(text) : IsDigit(text[k])
    /\ text[1] = "2"
    /\ text[2] \in {"7", "8", "9"}

\* C16: within one instance every value generate_mail_id returns is a
\* numeral in 2700000000..2999999999 and differs from every value the
\* instance returned before; the used set holds exactly the values returned,
\* and an instance on which nothing was called has both used sets empty.
C16_MailIdsDistinct ==
    /\ \A j \in CallsOf("generate_mail_id") :
          /\ InMailIdRange(inst.calls[j].result)
          /\ \A i \in CallsOf("generate_mail_id") :
                i < j => inst.calls[i].result # inst.calls[j].result
    /\ generator.used_mail_ids =
          {inst.calls[i].result : i \in CallsOf("generate_mail_id")}
    /\ inst.calls = <<>> => generator = NewGenerator

\* a second instance has returned two mail ids, both ends of the range, one
\* of which an earlier instance had returned too
C16_Witness ==
    /\ Cardinality(CallsOf("generate_mail_id")) = 2
    /\ \E j \in CallsOf("generate_mail_id") : inst.calls[j].result \in inst.earlier
    /\ {inst.calls[j].result : j \in CallsOf("generate_mail_id")} = MailIdSamples

\* ------------------------------------------------- output paths and runs
\* the last invocation came from the command line and went on to
\* generate_file
CliGenerates ==
    /\ run.front = "cli"
    /\ run.status = "generating"

\* the path the last command line asked for: the option, or the default
\* that was persisted when it started
RequestedPath ==
    IF run.inv.filename # <<>> THEN run.inv.filename
    ELSE load_config(run.config_before).default_output_filename

\* path with _k put before its last "."
WithSuffix(path, k) ==
    LET cut == CHOOSE i \in 1..Len(path) :
                   /\ path[i] = "."
                   /\ \A j \in (i + 1)..Len(path) : path[j] # "."
    IN SubSeq(path, 1, cut - 1) \o <<"_">> \o str_int(k)
           \o SubSeq(path, cut, Len(path))

Out1Lua == <<"o", "u", "t", "_", "1", ".", "l", "u", "a">>
Out2Lua == <<"o", "u", "t", "_", "2", ".", "l", "u", "a">>

\* C17: the path get_unique_filename returned to main did not exist when it
\* was returned; it is the requested path when that did not exist, and
\* otherwise name_k.ext for the smallest k >= 1 whose path did not exist:
\* out_1.lua when out.lua existed and out_1.lua did not, out_2.lua when
\* both existed and out_2.lua did not.
C17_UniqueFilename ==
    CliGenerates =>
        /\ ~path_exists(run.before, args.filename)
        /\ ~path_exists(run.before, RequestedPath) =>
              args.filename = RequestedPath
        /\ path_exists(run.before, RequestedPath) =>
              \E k \in 1..(MaxRuns + 2) :
                  /\ args.filename = WithSuffix(RequestedPath, k)
                  /\ \A j \in 1..(k - 1) :
                        path_exists(run.before, WithSuffix(RequestedPath, j))
        /\ (/\ RequestedPath = OutLua
            /\ run.before[OutLua].exists
            /\ ~run.before[Out1Lua].exists) => args.filename = Out1Lua
        /\ (/\ RequestedPath = OutLua
            /\ run.before[OutLua].exists
            /\ run.before[Out1Lua].exists
            /\ ~run.before[Out2Lua].exists) => args.filename = Out2Lua

\* a command line asked for out.lua when out.lua and out_1.lua existed, one
\* of them written by the run before, and has written out_2.lua
C17_Witness ==
    /\ CliGenerates
    /\ gen_pc = "written"
    /\ RequestedPath = OutLua
    /\ run.before[OutLua].exists
    /\ run.before[Out1Lua].exists
    /\ run.before[Out1Lua].text # OtherText
    /\ args.filename = Out2Lua
    /\ fs[Out2Lua].exists

\* C18: whatever ran, from the command line or from the window, every file
\* that existed when the last invocation started still holds the content
\* it had then.
C18_NeverOverwrites ==
    \A p \in Paths : run.before[p].exists => fs[p] = run.before[p]

\* the values main checks: the options given, the persisted defaults for
\* those left out
CheckedValues ==
    [blank_count |-> run.inv.blank_count, roster_count |-> run.inv.roster_count,
     mail_count |-> run.inv.mail_count, mixed_count |-> run.inv.mixed_count,
     ticket_cost |->
         IF run.inv.ticket_cost = <<>>
         THEN load_config(run.config_before).default_ticket_cost
         ELSE run.inv.ticket_cost[1],
     roster_entries |->
         IF run.inv.roster_entries = <<>>
         THEN load_config(run.config_before).roster_entries_per_account
         ELSE run.inv.roster_entries[1],
     mail_entries |->
         IF run.inv.mail_entries = <<>>
         THEN load_config(run.config_before).mail_entries_per_account
         ELSE run.inv.mail_entries[1]]

\* a negative count, a ticket cost or an entries value that is not
\* positive, or no account at all
Invalid(a) ==
    \/ a.blank_count < 0
    \/ a.roster_count < 0
    \/ a.mail_count < 0
    \/ a.mixed_count < 0
    \/ a.ticket_cost < 1
    \/ a.roster_entries < 1
    \/ a.mail_entries < 1
    \/ a.blank_count + a.roster_count + a.mail_count + a.mixed_count = 0

\* the checks of main over all values from -1 to 2: a message exactly for
\* the invalid ones
MainDecides ==
    \A a \in [blank_count : -1..2, roster_count : -1..2, mail_count : -1..2,
              mixed_count : -1..2, ticket_cost : -1..2,
              roster_entries : -1..2, mail_entries : -1..2] :
        (main_error(a) # "") <=> Invalid(a)

\* C19: a command line without the reset flag whose values are invalid ends
\* with a diagnostic and exit code 1, starts no generation and writes no
\* file; every other one goes on to generate_file.
C19_MainRejects ==
    /\ MainDecides
    /\ (run.front = "cli" /\ ~run.inv.reset_config) =>
          IF Invalid(CheckedValues)
          THEN /\ run.status = "rejected"
               /\ run.exit = 1
               /\ run.out \in {"Error: All account counts must be non-negative",
                                "Error: Ticket cost must be positive",
                                "Error: Roster entries per account must be positive",
                                "Error: Mail entries per account must be positive",
                                "Error: At least one account must be specified"}
               /\ gen_pc = "idle"
               /\ \A p \in Paths :
                     fs[p] # run.before[p] =>
                         /\ ~run.before[p].exists
                         /\ fs[p] = FileOf(OtherText)
          ELSE run.status = "generating"

\* a command line that leaves the ticket cost out is rejected for the
\* ticket cost 0 that the window persisted before, with files in place
C19_Witness ==
    /\ run.front = "cli"
    /\ ~run.inv.reset_config
    /\ run.inv.ticket_cost = <<>>
    /\ run.config_before.exists
    /\ run.config_before.values.default_ticket_cost = 0
    /\ run.status = "rejected"
    /\ run.out = "Error: Ticket cost must be positive"
    /\ \E p \in Paths : fs[p].exists

\* C20: when the generation of an invocation has failed, the persisted
\* defaults hold the values they had before the invocation.
C20_DefaultsAfterSuccess ==
    (run.status = "generating" /\ gen_pc = "raised") =>
        load_config(config) = load_config(run.config_before)

\* ------------------------------------------------ validators, missing file
\* a validator was given exactly one argument, a path at which there is no
\* file
RanOnMissing ==
    /\ cli.prog \in {"validate.py", "check_amounts.py"}
    /\ Len(cli.argv) = 1
    /\ ~fs[cli.argv[1]].exists

\* C23: either validator run on a path that does not exist ends with the
\* file-access error of open and a nonzero exit status, and prints neither
\* the all-consistent message nor any count or statistic.
C23_MissingFile ==
    RanOnMissing =>
        /\ cli.raised = "FileNotFoundError"
        /\ cli.exit # 0
        /\ cli.opened = {cli.argv[1]}
        /\ \A k \in 1..Len(cli.out) :
              cli.out[k].msg \notin {"AllConsistent", "Validated", "Found",
                                    "TicketCost", "Total", "Valid", "Invalid"}

\* check_amounts.py has been run on missing.lua while out.lua exists
C23_Witness ==
    /\ RanOnMissing
    /\ cli.prog = "check_amounts.py"
    /\ cli.argv = <<MissingLua>>
    /\ fs[OutLua].exists

\* ----------------------------------------------------------- account shapes
\* the keys of a dict value
KeysOf(d) == {d.v[i][1].v : i \in 1..Len(d.v)}

\* the loop of generate_file that builds account number made + 1
LoopOf(a, n) ==
    IF n < a.blank_count THEN "blank"
    ELSE IF n < a.blank_count + a.roster_count THEN "roster"
    ELSE IF n < a.blank_count + a.roster_count + a.mail_count THEN "mail"
    ELSE "mixed"

RosterKeys == {Key.roster_data, Key.roster_timestamp}
MailKeys == {Key.timestamp, Key.mail_data}

\* account is {"$AccountWide": account_data} with the fields of the kind
HasShape(kind, account, ticket_cost) ==
    /\ account.t = "dict"
    /\ KeysOf(account) = {Key.AccountWide}
    /\ \E d \in {DictGet(account.v, VStr(Key.AccountWide))} :
         /\ d.t = "dict"
         /\ Len(d.v) = Cardinality(KeysOf(d))
         /\ {Key.version, Key.ticket_cost} \subseteq KeysOf(d)
         /\ Field(d, Key.version) = 1
         /\ Field(d, Key.ticket_cost) = ticket_cost
         /\ \E templates \in {{}, {Key.body, Key.subject}} :
              KeysOf(d) =
                {Key.version, Key.ticket_cost}
                \cup (IF kind \in {"roster", "mixed"} THEN RosterKeys ELSE {})
                \cup (IF kind \in {"mail", "mixed"}
                      THEN MailKeys \cup templates ELSE {})

\* C22: every iteration of a loop of generate_file stores, under one
\* username, an account of exactly the shape of the loop's kind (blank:
\* version and ticket cost; roster: plus roster list and roster timestamp;
\* mail: plus mail list and timestamp, and body and subject together or not at
\* all; mixed: the union), whose ticket cost is the one generate_file was
\* called with; so all accounts of a file carry that ticket cost.
C22_AccountShapes ==
    [][/\ made' = made + 1 =>
            \E i \in 1..Len(accounts') :
              /\ HasShape(LoopOf(args, made), accounts'[i][2], args.ticket_cost)
              /\ accounts' = DictSet(accounts, accounts'[i][1], accounts'[i][2])
       /\ \A d \in AccountData : Field(d, Key.ticket_cost) = args.ticket_cost
      ]_vars

\* a file was written with a mixed account that has body and subject and
\* a roster account, at ticket cost 2
C22_Witness ==
    /\ gen_pc = "written"
    /\ args.ticket_cost = 2
    /\ \E d \in AccountData :
         KeysOf(d) = {Key.version, Key.ticket_cost, Key.body, Key.subject}
                     \cup RosterKeys \cup MailKeys

\* ------------------------------------------------------------ file contents
\* the lists stored under key in the accounts built
ListsUnder(key) ==
    {Field(d, key) : d \in {x \in AccountData : DictHas(x.v, VStr(key))}}

\* C24: the file generate_file wrote holds exactly blank + roster + mail +
\* mixed top-level account entries, every roster list in it has exactly
\* roster_entries entries and every mail list exactly mail_entries entries.
C24_ExactCounts ==
    gen_pc = "written" =>
        /\ fs[args.filename].text = lua_content(accounts)
        /\ Len(accounts) = total_accounts(args)
        /\ \A l \in ListsUnder(Key.roster_data) : Len(l) = args.roster_entries
        /\ \A l \in ListsUnder(Key.mail_data) : Len(l) = args.mail_entries

\* --------------------------------------------------------------- round trip
\* the lists stored under key in the accounts built, in the order of the
\* file, as one sequence of entries
EntriesUnder(key) ==
    Concat([i \in 1..Len(accounts) |->
              IF DictHas(DictGet(accounts[i][2].v, VStr(Key.AccountWide)).v, VStr(key))
              THEN Field(DictGet(accounts[i][2].v, VStr(Key.AccountWide)), key)
              ELSE <<>>])

\* the four counters of the roster entries built, entry by entry
BuiltCounters ==
    [k \in 1..Len(EntriesUnder(Key.roster_data)) |->
       [f \in {"sales10", "purchases30", "sales30", "purchases10"} |->
          Field(EntriesUnder(Key.roster_data)[k], f)]]

\* the amounts of the mail entries built, entry by entry
BuiltAmounts ==
    [k \in 1..Len(EntriesUnder(Key.mail_data)) |->
       Field(EntriesUnder(Key.mail_data)[k], Key.amount)]

\* C26: on the text format_lua_value gave the accounts built, the pattern
\* of validate.py extracts one quadruple per roster entry, in order, whose
\* four values are the four counters of that entry, and the patterns of
\* check_amounts.py extract the ticket cost of the call (none from a tree
\* without accounts, which holds no ticket cost) and one amount per mail
\* entry, in order, equal to the amount of that entry.
C26_RoundTrip ==
    /\ ValidatedGenerated =>
         /\ cli.raised = ""
         /\ cli.report.entries = BuiltCounters
    /\ (/\ gen_pc = "written"
        /\ cli.prog = "check_amounts.py"
        /\ cli.argv = <<args.filename>>) =>
         /\ cli.raised = ""
         /\ (accounts # <<>> => cli.report.ticket_cost = args.ticket_cost)
         /\ (accounts = <<>> => cli.out = <<Line("NoTicketCost", <<>>)>>)
         /\ cli.report.amounts = BuiltAmounts
         /\ Len(cli.report.valid) + Len(cli.report.invalid) = Len(BuiltAmounts)

\* the roster entries of a written file with a mixed account came back with
\* four counters that tell the fields apart
C26_Witness ==
    /\ ValidatedGenerated
    /\ args.mixed_count = 1
    /\ Len(BuiltAmounts) = 1
    /\ \E k \in 1..Len(BuiltCounters) :
         /\ cli.report.entries[k] = BuiltCounters[k]
         /\ BuiltCounters[k].purchases30 # BuiltCounters[k].sales30

\* ------------------------------------------- generate_mail_id, draw by draw
\* The draws the model counts in a call; further draws leave the count.
MaxDraws == 2

\* generator.generate_mail_id() is called: while True
EnterMailIdLoop ==
    /\ draw.pc \in {"idle", "returned"}
    /\ draw' = [pc |-> "loop", attempts |-> 0, result |-> <<>>]
    /\ UNCHANGED <<fs, gen_vars, cli, fmt, inst, config, run, conf, gui>>

\* mail_id = str(random.randint(...)) is not in used_mail_ids: it is added
\* and returned
DrawFresh ==
    /\ draw.pc = "loop"
    /\ \E mail_id \in MailIdRange :
         /\ new_mail_id(mail_id, generator)
         /\ generator' = [generator EXCEPT !.used_mail_ids = @ \cup {mail_id}]
         /\ draw' = [draw EXCEPT !.pc = "returned", !.result = mail_id]
    /\ UNCHANGED <<fs, gen_pc, args, made, accounts, mail_log, cli, fmt,
                   inst, config, run, conf, gui>>

\* mail_id is in used_mail_ids: the loop goes round
DrawUsed ==
    /\ draw.pc = "loop"
    /\ \E mail_id \in MailIdRange :
         /\ ~new_mail_id(mail_id, generator)
         /\ draw' = [draw EXCEPT !.attempts = Min({@ + 1, MaxDraws})]
    /\ UNCHANGED <<fs, gen_vars, cli, fmt, inst, config, run, conf, gui>>

\* generate_mail_id called again and again on one instance
SpecMailId ==
    Init /\ [][EnterMailIdLoop \/ DrawFresh \/ DrawUsed]_vars

\* random.randint draws every value of the range again and again: a value
\* that would end the loop is drawn at some time
FairMailId == SpecMailId /\ WF_vars(DrawFresh)

\* C28: a generate_mail_id call returns, under fair draws, whenever a
\* value of the range is not in the used set; it returns only a value that
\* was not in the used set, however many draws it has made (there is no
\* fallback and no bound on the attempts); and once every value of the range
\* is in the used set the call never returns.
C28_MailIdLoop ==
    /\ (draw.pc = "loop" /\ generator.used_mail_ids # MailIdRange)
           ~> (draw.pc = "returned")
    /\ [][draw'.pc = "returned" /\ draw.pc # "returned" =>
            /\ draw.pc = "loop"
            /\ draw'.result \in MailIdRange \ generator.used_mail_ids
            /\ generator'.used_mail_ids =
                  generator.used_mail_ids \cup {draw'.result}]_vars
    /\ [][draw.pc = "loop" /\ draw'.pc = "loop" =>
            generator'.used_mail_ids = generator.used_mail_ids]_vars
    /\ [][draw.pc = "loop" /\ generator.used_mail_ids = MailIdRange =>
            draw'.pc = "loop"]_vars

\* a call returned an unused value after draws of used ones, with half the
\* range used
C28_Witness ==
    /\ draw.pc = "returned"
    /\ draw.attempts = MaxDraws
    /\ draw.result \in generator.used_mail_ids
    /\ Cardinality(generator.used_mail_ids) = 2

\* a call goes round with every value of the range used
C28_Exhausted ==
    /\ draw.pc = "loop"
    /\ draw.attempts = MaxDraws
    /\ generator.used_mail_ids = MailIdRange

\* ------------------------------------------------------------- config.json
\* The documents put at config.json from outside the program.
Documents ==
    {Document(k, <<>>) :
        k \in {"absent", "object", "malformed", "unreadable", "non_object",
               "not_utf8"}}
    \cup {Document("object", [default_ticket_cost |-> 7]),
          Document("object", [DEFAULT_CONFIG EXCEPT
                                 !.roster_entries_per_account = 3])}

\* config.json is edited, replaced or removed between two operations.
EditConfig ==
    /\ \E d \in Documents \ {conf.doc} :
          conf' = [conf EXCEPT !.doc = d, !.before = conf.doc, !.op = "edit",
                               !.raised = ""]
    /\ UNCHANGED <<fs, gen_vars, cli, fmt, inst, config, run, draw, gui>>

\* config = load_config(), at the start of main and of the window
LoadConfig ==
    /\ \E o \in {load_outcome(conf.doc, conf.defaults)} :
          conf' = [conf EXCEPT
                      !.doc = o.doc, !.before = conf.doc,
                      !.op = "load_config", !.raised = o.raised,
                      !.holding = (o.raised = ""),
                      !.held = o.config]
    /\ UNCHANGED <<fs, gen_vars, cli, fmt, inst, config, run, draw, gui>>

\* config[key] = value on the configuration held: the dict written is the
\* DEFAULT_CONFIG object when the configuration held is that object
assign(c, key, value) ==
    [c EXCEPT !.held.values =
                 [k \in DOMAIN @ \cup {key} |-> IF k = key THEN value ELSE @[k]],
              !.defaults =
                 IF c.held.alias
                 THEN [k \in DOMAIN @ \cup {key} |->
                         IF k = key THEN value ELSE @[k]]
                 ELSE @]

\* save_config(config): json.dump of the configuration held
saved(c) == [c EXCEPT !.doc = Document("object", c.held.values)]

\* main, save_settings: top-level keys of the configuration held are
\* assigned, then save_config(config)
UpdateConfig ==
    /\ conf.holding
    /\ \E v \in {1, 7} :
          conf' = [saved(assign(conf, "default_ticket_cost", v)) EXCEPT
                      !.before = conf.doc, !.op = "update", !.raised = ""]
    /\ UNCHANGED <<fs, gen_vars, cli, fmt, inst, config, run, draw, gui>>

\* reset_config_to_defaults(): config = DEFAULT_CONFIG.copy();
\* save_config(config); return config
ResetConfigToDefaults ==
    /\ conf' = [saved([conf EXCEPT !.held = dict_copy(conf.defaults),
                                   !.holding = TRUE]) EXCEPT
                   !.before = conf.doc, !.op = "reset_config_to_defaults",
                   !.raised = ""]
    /\ UNCHANGED <<fs, gen_vars, cli, fmt, inst, config, run, draw, gui>>

\* reset_to_defaults of the window: self.config.update(DEFAULT_CONFIG), the
\* two nested dicts replaced by new ones with the default members,
\* save_config(self.config)
ResetToDefaults ==
    /\ conf.holding
    /\ conf' = [saved([conf EXCEPT
                          !.held.values =
                              fill_missing(conf.defaults, conf.held.values)])
                EXCEPT !.before = conf.doc, !.op = "reset_to_defaults",
                       !.raised = ""]
    /\ UNCHANGED <<fs, gen_vars, cli, fmt, inst, config, run, draw, gui>>

\* load, save, reset and update operations with config.json edited in
\* between
SpecConfig ==
    Init /\ [][EditConfig \/ LoadConfig \/ UpdateConfig \/ ResetConfigToDefaults \/ ResetToDefaults]_vars

\* load_config has just been called
Loaded == conf.op = "load_config"

\* C21: load_config always returns a configuration with every key of the
\* built-in defaults: with no document it creates one holding the defaults
\* and returns them, with a document it returns the stored values with the
\* missing keys filled from the defaults, with an unreadable or malformed
\* document it returns the defaults; and no sequence of load, save, reset
\* and update operations changes the built-in defaults.
C21_LoadConfig ==
    /\ conf.defaults = DEFAULT_CONFIG
    /\ Loaded =>
         /\ conf.raised = ""
         /\ conf.holding
         /\ DOMAIN DEFAULT_CONFIG \subseteq DOMAIN conf.held.values
         /\ (conf.before.kind = "absent" =>
                /\ conf.doc = Document("object", DEFAULT_CONFIG)
                /\ conf.held.values = DEFAULT_CONFIG)
         /\ (conf.before.kind = "object" =>
                \A k \in DOMAIN conf.held.values :
                   conf.held.values[k] =
                      IF k \in DOMAIN conf.before.values
                      THEN conf.before.values[k] ELSE DEFAULT_CONFIG[k])
         /\ (conf.before.kind \notin {"absent", "object"} =>
                conf.held.values = DEFAULT_CONFIG)

\* the same with the documents load_config cannot read left aside
C21_ReadableDocuments ==
    /\ conf.defaults = DEFAULT_CONFIG
    /\ Loaded /\ conf.before.kind \notin {"non_object", "not_utf8"} =>
         /\ conf.raised = ""
         /\ DOMAIN DEFAULT_CONFIG \subseteq DOMAIN conf.held.values

\* -------------------------------------------------------------- the window
\* Largest number of generate_data calls in a run of the window.
MaxStarts == 2

\* What the fields of the window hold when generate_data reads them: one
\* blank account to out.lua, the same to a path that cannot be written, and
\* no account at all.
GuiInputs ==
    {BaseInvocation, [BaseInvocation EXCEPT !.filename = NoDirOutLua],
     [BaseInvocation EXCEPT !.blank_count = 0]}

\* generate_data: save_settings, the parameters read, the zero check, the
\* button disabled and relabelled, the worker thread started
generate_data(i) ==
    /\ gui.calls < MaxStarts
    /\ config' = save_config(gui_settings(i))
    /\ IF total_accounts(gui_args(i)) = 0
       THEN gui' = [gui EXCEPT
                       !.calls = @ + 1,
                       !.log = Append(@, [level |-> "error",
                                          text |-> "No accounts selected for generation",
                                          worker |-> 0, error |-> ""])]
       ELSE gui' = [gui EXCEPT
                       !.calls = @ + 1,
                       !.log = Append(@, [level |-> "info",
                                          text |-> "Starting generation",
                                          worker |-> gui.calls + 1,
                                          error |-> ""]),
                       !.button = "disabled",
                       !.label = "GENERATING...",
                       !.workers = @ \cup {[id |-> gui.calls + 1,
                                            pc |-> "running",
                                            args |-> gui_args(i),
                                            error |-> ""]}]
    /\ UNCHANGED <<fs, gen_vars, cli, fmt, inst, run, draw, conf>>

\* the generate button is pressed: a disabled button does not call its
\* command
ClickGenerate ==
    /\ gui.button = "normal"
    /\ \E i \in GuiInputs : generate_data(i)

\* root.bind('<Control-g>', lambda e: self.generate_data()): the handler
\* runs whatever the state of the button
CtrlG ==
    /\ gui.button \in {"normal", "disabled"}
    /\ \E i \in GuiInputs : generate_data(i)

\* update_preview, on a key release in a field, a check box or F5: the
\* button enabled when the fields ask for an account, disabled when they do
\* not or do not parse
UpdatePreview ==
    /\ \E some_accounts \in BOOLEAN :
          gui' = [gui EXCEPT !.button = IF some_accounts THEN "normal"
                                        ELSE "disabled"]
    /\ UNCHANGED <<fs, gen_vars, cli, fmt, inst, config, run, draw, conf>>

\* generate_thread, step by step.  running: generate_file returns and the
\* success callback is posted, or raises and the failure callback is posted
\* inside the except block; except: the block is left and e is unbound;
\* finally: the callback that restores the button is posted and the thread
\* ends.  The file of a call with one blank account is written in one step.
generate_thread ==
    /\ \E w \in gui.workers :
         CASE w.pc = "running" /\ open_fails(w.args.filename) ->
                /\ gui' = [gui EXCEPT
                              !.workers = (@ \ {w}) \cup
                                  {[w EXCEPT !.pc = "except",
                                             !.error = "FileNotFoundError"]},
                              !.queue = Append(@, [kind |-> "failed",
                                                   worker |-> w.id])]
                /\ fs' = fs
           [] w.pc = "running" /\ ~open_fails(w.args.filename) ->
                /\ gui' = [gui EXCEPT
                              !.workers = (@ \ {w}) \cup
                                  {[w EXCEPT !.pc = "finally"]},
                              !.queue = Append(@, [kind |-> "success",
                                                   worker |-> w.id])]
                /\ \E u \in generate_username(NewGenerator) :
                    \E b \in generate_blank_account(w.args.ticket_cost, u.g) :
                      fs' = [fs EXCEPT ![w.args.filename] =
                               FileOf(lua_content(
                                   DictSet(<<>>, VStr(u.result), b.result)))]
           [] w.pc = "except" ->
                /\ gui' = [gui EXCEPT
                              !.workers = (@ \ {w}) \cup
                                  {[w EXCEPT !.pc = "finally"]}]
                /\ fs' = fs
           [] w.pc = "finally" ->
                /\ gui' = [gui EXCEPT
                              !.workers = @ \ {w},
                              !.finished = @ \cup {[id |-> w.id,
                                                    error |-> w.error]},
                              !.queue = Append(@, [kind |-> "restore",
                                                   worker |-> w.id])]
                /\ fs' = fs
    /\ UNCHANGED <<gen_vars, cli, fmt, inst, config, run, draw, conf>>

\* The main loop runs the callback root.after(0, ...) registered first.  The
\* failure callback reads e of generate_thread: bound while the worker is
\* still inside its except block, unbound afterwards, where the lambda raises
\* NameError and Tk reports it on stderr.
RunCallback ==
    /\ gui.queue # <<>>
    /\ \E c \in {Head(gui.queue)} :
         gui' =
           CASE c.kind = "success" ->
                  [gui EXCEPT !.queue = Tail(@),
                              !.log = Append(@, [level |-> "success",
                                                 text |-> "Successfully generated",
                                                 worker |-> c.worker,
                                                 error |-> ""])]
             [] c.kind = "failed" ->
                  IF \E w \in gui.workers : w.id = c.worker /\ w.pc = "except"
                  THEN [gui EXCEPT
                           !.queue = Tail(@),
                           !.log = Append(@, [level |-> "error",
                                              text |-> "Generation failed",
                                              worker |-> c.worker,
                                              error |-> "FileNotFoundError"])]
                  ELSE [gui EXCEPT !.queue = Tail(@),
                                   !.stderr = Append(@, "NameError")]
             [] c.kind = "restore" ->
                  [gui EXCEPT !.queue = Tail(@), !.button = "normal",
                              !.label = "GENERATE DATA"]
    /\ UNCHANGED <<fs, gen_vars, cli, fmt, inst, config, run, draw, conf>>

\* The window: the user's actions, the worker threads and the main loop.
SpecGui ==
    Init /\ [][ClickGenerate \/ CtrlG \/ UpdatePreview \/ generate_thread
                \/ RunCallback]_vars

\* the workers whose callbacks have not all run
InFlight ==
    {w.id : w \in gui.workers}
    \cup {gui.queue[k].worker : k \in 1..Len(gui.queue)}

\* the outcome reports logged for a worker
ReportsOf(id) ==
    {k \in 1..Len(gui.log) :
        gui.log[k].worker = id /\ gui.log[k].level \in {"success", "error"}}

\* C27: every generation generate_data started finishes with exactly one
\* outcome report applied by the main loop, a success message when
\* generate_file returned and a "Generation failed" message carrying the
\* error when it raised; and when all callbacks have run the button has its
\* original label again.
C27_OneOutcomeReport ==
    /\ \A f \in gui.finished :
         f.id \notin InFlight =>
           /\ Cardinality(ReportsOf(f.id)) = 1
           /\ \A k \in ReportsOf(f.id) :
                IF f.error = ""
                THEN gui.log[k].level = "success"
                ELSE /\ gui.log[k].level = "error"
                     /\ gui.log[k].text = "Generation failed"
                     /\ gui.log[k].error = f.error
    /\ (InFlight = {} => gui.label = "GENERATE DATA")

\* C29: at most one generation worker is in flight (started and its
\* completion callback not yet run), so no two workers are writing the same
\* output path.
C29_OneWorker ==
    /\ Cardinality(InFlight) <= 1
    /\ \A v, w \in gui.workers :
         v.pc = "running" /\ w.pc = "running"
         /\ v.args.filename = w.args.filename => v = w

\* ------------------------------------------------------ the end-to-end run
\* generate_file(1, 2, 2, 1, "out.lua", 500, 3, 4): one blank account, two
\* roster accounts, two mail accounts and one mixed account, 3 roster and 4
\* mail entries per account, ticket cost 500
ScenarioArgs ==
    [blank_count |-> 1, roster_count |-> 2, mail_count |-> 2,
     mixed_count |-> 1, filename |-> OutLua, ticket_cost |-> 500,
     roster_entries |-> 3, mail_entries |-> 4]

\* One run of draws for account number n of a call, in which every name and
\* every mail id drawn is new: the account name is the numbered name n, entry
\* k of its lists carries the numbered name and the mail id 10 * n + k, the
\* amount of a mail entry is amount, one outcome of mail_amount, the other
\* fields of an entry are those of roster and mail, one outcome of
\* roster_entry and one of mail_entry, and body and subject are added or not.
drawn_accounts(kind, a, n, roster, mail, amount) ==
    LET plain == CHOOSE u \in UsernameCandidates :
                    \A v \in UsernameCandidates : Len(u) <= Len(v)
        drawn_name(k) == plain \o str_int(k)
        roster_data ==
            [k \in 1..a.roster_entries |->
               VDict(DictSet(roster.result.v, VStr(Key.account),
                             VStr(drawn_name(10 * n + k))))]
        mail_data ==
            [k \in 1..a.mail_entries |->
               VDict(DictSet(DictSet(DictSet(mail.result.v, VStr(Key.id),
                                     VStr(mail_id_str(<<27000, 10 * n + k>>))),
                                     VStr(Key.amount), VInt(amount.amount)),
                             VStr(Key.user), VStr(drawn_name(10 * n + k))))]
        empty == CASE kind = "blank" ->
                        generate_blank_account(a.ticket_cost, NewGenerator)
                   [] kind = "roster" ->
                        generate_roster_account(a.ticket_cost, 0, NewGenerator)
                   [] kind = "mail" ->
                        generate_mail_account(a.ticket_cost, 0, NewGenerator)
                   [] kind = "mixed" ->
                        generate_mixed_account(a.ticket_cost, 0, 0, NewGenerator)
        filled(d) ==
            LET r == IF DictHas(d, VStr(Key.roster_data))
                     THEN DictSet(d, VStr(Key.roster_data), VList(roster_data))
                     ELSE d
            IN IF DictHas(r, VStr(Key.mail_data))
               THEN DictSet(r, VStr(Key.mail_data), VList(mail_data))
               ELSE r
        held(b, key) ==
            DictHas(DictGet(b.result.v, VStr(Key.AccountWide)).v, VStr(key))
    IN {[name |-> drawn_name(n),
         account |-> account_wide(
                        filled(DictGet(b.result.v, VStr(Key.AccountWide)).v)),
         names |-> {drawn_name(10 * n + k) :
                      k \in (IF held(b, Key.roster_data)
                             THEN 1..a.roster_entries ELSE {})
                            \cup (IF held(b, Key.mail_data)
                                  THEN 1..a.mail_entries ELSE {})},
         mail_ids |-> {mail_id_str(<<27000, 10 * n + k>>) :
                         k \in IF held(b, Key.mail_data)
                               THEN 1..a.mail_entries ELSE {}}] :
          b \in empty}

\* generate_file is called on a new generator with the counts of the
\* end-to-end run, or with some of them 0.
StartScenario ==
    /\ gen_pc = "idle"
    /\ \E r \in {0, 2}, m \in {0, 2}, x \in {0, 1} :
          args' = [ScenarioArgs EXCEPT !.roster_count = r, !.mail_count = m,
                                       !.mixed_count = x]
    /\ gen_pc' = "generating"
    /\ made' = 0
    /\ accounts' = <<>>
    /\ generator' = NewGenerator
    /\ mail_log' = <<>>
    /\ UNCHANGED <<fs, cli, fmt, inst, config, run, draw, conf, gui>>

\* username = self.generate_username(); accounts[username] = <account>, for
\* the draws of drawn_accounts.  The account name is a new name of the retry
\* loop or, once a name is in use, the name of the fallback, which is
\* returned whether or not it is in use.
DrawnIteration ==
    /\ gen_pc = "generating"
    /\ made < total_accounts(args)
    /\ \E kind \in {IF made < args.blank_count THEN "blank"
                     ELSE IF made < args.blank_count + args.roster_count
                     THEN "roster"
                     ELSE IF made < args.blank_count + args.roster_count
                                    + args.mail_count
                     THEN "mail" ELSE "mixed"} :
       \E roster \in {CHOOSE e \in roster_entry(NewGenerator) : TRUE} :
       \E mail \in {CHOOSE e \in mail_entry(1, NewGenerator) : e.raised = ""} :
       \E amount \in {CHOOSE x \in mail_amount(args.ticket_cost) :
                         x.raised = ""} :
       \E d \in drawn_accounts(kind, args, made + 1, roster, mail, amount) :
       \E username \in {d.name} \cup
                        (IF generator.used_usernames = {} THEN {}
                         ELSE {CHOOSE f \in FallbackUsernames : TRUE}) :
          /\ accounts' = DictSet(accounts, VStr(username), d.account)
          /\ generator' =
                [used_usernames |-> generator.used_usernames
                                      \cup {username} \cup d.names,
                 used_mail_ids |-> generator.used_mail_ids \cup d.mail_ids]
          /\ made' = made + 1
    /\ UNCHANGED <<fs, gen_pc, args, mail_log, cli, fmt, inst, config, run,
                   draw, conf, gui>>

\* The end-to-end run: generate_file, then validate.py on its file.
SpecScenario ==
    Init /\ [][StartScenario \/ DrawnIteration \/ WriteFile
                \/ ValidateGenerated]_vars

\* C25: for 1 blank + 2 roster accounts (3 roster entries each) + 2 mail
\* accounts (4 mail entries each, ticket cost 500) + 1 mixed account,
\* validate.py on the generated file prints "Validated 10 roster entries"
\* and finds no inconsistency.
C25_ScenarioValidates ==
    ValidatedGenerated /\ args = ScenarioArgs =>
        /\ cli.out[2] = Line("Validated", <<10>>)
        /\ cli.report.issues = <<>>
        /\ cli.out[3] = Line("AllConsistent", <<>>)

\* the accounts of the file that hold a roster list
RosterHolders ==
    {i \in 1..Len(accounts) :
        DictHas(DictGet(accounts[i][2].v, VStr(Key.AccountWide)).v,
                VStr(Key.roster_data))}

\* C25 (amended): for that scenario validate.py prints "Validated n roster
\* entries" with n = 3 for each account of the file that holds a roster
\* list, which is 9 when the file holds the six accounts and never 10, and
\* finds no inconsistency.
C25_NineEntries ==
    ValidatedGenerated /\ args = ScenarioArgs =>
        /\ cli.out = <<Line("Validating", <<>>),
                       Line("Validated", <<3 * Cardinality(RosterHolders)>>),
                       Line("AllConsistent", <<>>)>>
        /\ cli.report.issues = <<>>
        /\ cli.exit = 0
        /\ Cardinality(RosterHolders) <= 3
        /\ (Len(accounts) = 6 => Cardinality(RosterHolders) = 3)

\* the scenario has run with six distinct account names and the file has
\* been validated
C25_Witness ==
    /\ ValidatedGenerated
    /\ args = ScenarioArgs
    /\ Len(accounts) = 6
    /\ cli.out[2] = Line("Validated", <<9>>)

\* two accounts of the scenario were stored under the same fallback name
C25_FewerAccounts ==
    /\ ValidatedGenerated
    /\ args = ScenarioArgs
    /\ Len(accounts) < 6
    /\ cli.out[2] = Line("Validated", <<6>>)

====
